---- MODULE Spec2Model ----
(***************************************************************************)
(* Model of the per-connection session coordinator of the reading coach:   *)
(* ReadingService (src/src/domain/services/reading_service.py), the duplex *)
(* transport loops and their supervisor (src/src/application/              *)
(* websocket_handler.py).                                                  *)
(*                                                                         *)
(* Every asyncio task is a process that runs atomically from one           *)
(* suspension point to the next.  A put on the unbounded asyncio.Queue     *)
(* never suspends, so a handler is one step unless it awaits the coaching  *)
(* engine or a task.  Tasks interleave freely at their suspension points.  *)
(***************************************************************************)
EXTENDS Integers, Sequences, FiniteSets, TLC

\* ----- bounds of the model ------------------------------------------------
TotalPages == 2
MaxAudio == 10
MaxCtl == 1
MaxEvt == 3
MaxTasks == 2
MaxClock == 1
MaxQueue == 1
MaxOut == 1
MaxBacklog == 2
MaxOrderCtl == 3
MaxCoach == 3
MaxTurnCtl == 2
MaxCoachCalls == 4
MaxVersion == 2
MaxSaves == 1
MaxStream == 52
MaxAcks == 3
MaxHistory == 2

\* ----- program constants --------------------------------------------------
DispatchThreshold == 10
BufferCap == 50
DefaultMaxEventHistory == 100
ThresholdMin == 8
ThresholdMax == 15

SessionId == "sid"
\* the book of the session, and another one that an InitSession event may name
BookId == "book"
Books == {BookId, "other"}
None == <<>>

VARIABLES
    status, current_page, book_id, last_activity_at,
    audio_buffer, pending_events, last_events, max_event_history, event_id_counter,
    running, task, tpc, must_cancel, twait,
    inbound_queue, outbound_queue,
    nAudio, nCtl, qcap, issued, tracked, acked, lastOp,
    sessions, initialization_locks, lock_holder, lock_waiters,
    coach_pc, coach_lock, coach_nova, close_pc, close_session_pc,
    audio_count, page_turn_threshold, reader_page, coach_inputs, coach_outputs,
    repo_sessions, repo_result,
    api_pc, api_wait,
    sup_pc, sup_wait, send_pc, send_item, send_exc, send_cancel,
    recv_pc, recv_exc, recv_cancel, ws_closed, wire,
    ctl_pc, persist_pc, persist_cancel, nPeriodic, nFinal, saved, ep_closed

sessVars == <<status, current_page, book_id, last_activity_at>>
trackVars == <<pending_events, last_events, max_event_history, event_id_counter,
              issued, tracked, acked>>
taskVars == <<running, task, tpc, must_cancel, twait>>
queueVars == <<inbound_queue, outbound_queue>>
agentVars == <<sessions, initialization_locks, lock_holder, lock_waiters,
               coach_pc, coach_lock, coach_nova, close_pc, close_session_pc>>
simpleVars == <<audio_count, page_turn_threshold, reader_page, coach_inputs, coach_outputs>>
repoVars == <<repo_sessions, repo_result>>
envVars == <<nAudio, nCtl, qcap, agentVars, simpleVars, repoVars>>
apiVars == <<api_pc, api_wait>>
sendVars == <<send_pc, send_item, send_exc, send_cancel>>
recvVars == <<recv_pc, recv_exc, recv_cancel>>
supVars == <<sup_pc, sup_wait, ws_closed>>
ctlVars == <<ctl_pc, persist_pc, persist_cancel, nPeriodic, nFinal, saved, ep_closed>>
connVars == <<supVars, ctlVars, sendVars, recvVars, wire>>
callerVars == <<apiVars, connVars>>
svcVars == <<sessVars, audio_buffer, trackVars, taskVars, queueVars, envVars, lastOp>>
vars == <<svcVars, callerVars>>

Tasks == 1..MaxTasks
Pages == 0..(TotalPages + 1)

\* ----- values ---------------------------------------------------------------
\* f"{self.session.id}-evt-{self._event_id_counter}"
EventId(n) == <<SessionId, "evt", n>>

Msg(t, p, d, e) == [type |-> t, page |-> p, direction |-> d, event_id |-> e]
\* SessionReadyMessage(session_id, book_id, current_page)
SessionReadyMessage(sid, b, p) ==
    [type |-> "session.ready", page |-> p, direction |-> "none", event_id |-> None,
     session_id |-> sid, book_id |-> b]
NoticeMessage == Msg("notice", 0, "none", None)
FeedbackMessage == Msg("feedback", 0, "none", None)
\* ErrorOutMessage(code, message)
ErrorOutMessage(code) ==
    [type |-> "error", page |-> 0, direction |-> "none", event_id |-> None, code |-> code]
PageChangeMessage(p, d) == Msg("page_change", p, d, None)
NullDecision == Msg("null", 0, "none", None)
\* AudioOutMessage(pcm_bytes, timestamp)
AudioOutMessage == Msg("audio", 0, "none", None)

\* the PageChange payload object of a PageChangeMessage
PageChange(m) == [page |-> m.page, direction |-> m.direction, event_id |-> m.event_id]

\* what NovaSonicReadingAgent.coach and SimpleReadingAgent.coach can return
\* besides a page change
NonPageReplies ==
    {FeedbackMessage, NoticeMessage, AudioOutMessage, ErrorOutMessage("INTERNAL_ERROR")}

Decisions == {NullDecision, FeedbackMessage} \cup {PageChangeMessage(p, "none") : p \in Pages}

Event(t, p, e, s, f) == [type |-> t, page |-> p, event_id |-> e, status |-> s, frame |-> f]
InitSessionEvent(p, b) == [type |-> "init", page |-> p, event_id |-> None, status |-> "none",
                          frame |-> 0, book_id |-> b]
UpdateReaderStateEvent(p) == Event("update", p, None, "none", 0)
IngestAudioEvent(f) == Event("audio", 0, None, "none", f)
AckEventEvent(e, s) == Event("ack", 0, e, s, 0)
CloseEvent == Event("close", 0, None, "none", 0)
\* an InboundEvent of none of the five classes that _handle_event knows
UnknownEvent == Event("unknown", 0, None, "none", 0)

\* the operation that made the last step: its name, its outcome, its argument
Op(name, kind, n) == [op |-> name, kind |-> kind, n |-> n]
\* a step of the environment or of the transport, not an operation of the service
Quiet == Op("step", "none", 0)

\* variant: the oldest elements are kept
LastN_Oldest(s, n) == IF Len(s) > n THEN SubSeq(s, 1, n) ELSE s

\* s[-n:] for n >= 0: the last n elements, and for n = 0 the slice s[-0:] is
\* s[0:], the whole list
LastN(s, n) == IF n > 0 /\ Len(s) > n THEN SubSeq(s, Len(s) - n + 1, Len(s)) ELSE s

Alive(t) == tpc[t] \in {"new", "get", "coach", "stopwait"}
Finished(t) == tpc[t] \in {"done", "cancelled"}
Unborn == {t \in Tasks : tpc[t] = "unborn"}
NewTask == CHOOSE t \in Unborn : \A u \in Unborn : t <= u

\* ----- initial state: the service as constructed ---------------------------
SvcInit ==
    /\ status = "initializing"
    /\ current_page = 1
    /\ book_id = BookId
    /\ last_activity_at = 0
    /\ audio_buffer = <<>>
    /\ pending_events = <<>>
    /\ last_events = <<>>
    /\ max_event_history = DefaultMaxEventHistory
    /\ event_id_counter = 0
    /\ running = FALSE
    /\ task = 0
    /\ tpc = [t \in Tasks |-> "unborn"]
    /\ must_cancel = [t \in Tasks |-> FALSE]
    /\ twait = [t \in Tasks |-> 0]
    /\ inbound_queue = <<>>
    /\ outbound_queue = <<>>
    /\ nAudio = 0
    /\ nCtl = 0
    /\ issued = <<>>
    /\ tracked = <<>>
    /\ acked = <<>>
    /\ lastOp = Op("construct", "none", 0)

\* the asyncio queues are unbounded; a behaviour of the model lets at most
\* qcap.inq events and qcap.outq messages wait in them
Backlog(i, o) == [inq |-> i, outq |-> o]

\* the NovaSonic adapter as constructed: no engine session and no
\* initialization lock for the session id, no coach() call under way. An
\* engine session and a lock are named after the coach() call that made them;
\* 0 stands for "no entry"
Coaches == 1..MaxCoach

AgentInit ==
    /\ sessions = 0
    /\ initialization_locks = 0
    /\ lock_holder = [l \in Coaches |-> 0]
    /\ lock_waiters = [l \in Coaches |-> <<>>]
    /\ coach_pc = [c \in Coaches |-> "idle"]
    /\ coach_lock = [c \in Coaches |-> 0]
    /\ coach_nova = [c \in Coaches |-> 0]
    /\ close_pc = "idle"
    /\ close_session_pc = "idle"

\* the SimpleReadingAgent of the process, seen in two runs of the program:
\* run 1, in which the sessions A and B both read, and run 2, in which only A
\* reads. No coach() call has been made yet
Runs == {1, 2}
Readers == {"A", "B"}

SimpleStart(thresholds) ==
    /\ audio_count = [w \in Runs |-> 0]
    /\ page_turn_threshold \in {[w \in Runs |-> th] : th \in thresholds}
    /\ reader_page = [w \in Runs |-> [r \in Readers |-> 1]]
    /\ coach_inputs = [w \in Runs |-> <<>>]
    /\ coach_outputs = [w \in Runs |-> <<>>]

\* no SimpleReadingAgent is in use
SimpleIdle == SimpleStart({0})

\* the two session repositories as constructed: nothing is stored, nothing
\* was called. A stored session is stood for by the number of its version, 0
\* stands for "not stored"
Repositories == {"local", "dynamodb"}
SessionIds == {"s1", "s2"}

RepoInit ==
    /\ repo_sessions = [impl \in Repositories |-> [id \in SessionIds |-> 0]]
    /\ repo_result = [impl |-> "none", op |-> "none", id |-> "none", outcome |-> "none"]

\* variant: the queue hands out its newest element first
Get_Lifo(q) == [item |-> q[Len(q)], rest |-> SubSeq(q, 1, Len(q) - 1)]

\* asyncio.Queue.get on a queue that is not empty: the oldest element leaves
Get(q) == [item |-> Head(q), rest |-> Tail(q)]

\* no connection: the service is driven through its public methods
NoConn ==
    /\ sup_pc = "off"
    /\ sup_wait = 0
    /\ send_pc = "off"
    /\ send_item = NullDecision
    /\ send_exc = "none"
    /\ send_cancel = FALSE
    /\ recv_pc = "off"
    /\ recv_exc = "none"
    /\ recv_cancel = FALSE
    /\ ws_closed = 0
    /\ wire = <<>>
    /\ ctl_pc = "off"
    /\ persist_pc = "off"
    /\ persist_cancel = FALSE
    /\ nPeriodic = 0
    /\ nFinal = 0
    /\ saved = None
    /\ ep_closed = 0

Init ==
    /\ SvcInit
    /\ qcap = Backlog(MaxQueue, MaxOut)
    /\ AgentInit
    /\ SimpleIdle
    /\ RepoInit
    /\ api_pc = "idle"
    /\ api_wait = 0
    /\ NoConn

\* datetime.utcnow(): some time not before the previous stamp
Now == last_activity_at..MaxClock

\* ----- ReadingService.start -------------------------------------------------
\* the record of a call of start(): whether it started the service, and from
\* which status (0 Initializing, 1 Paused, 2 any other)
Started ==
    IF running THEN Op("start", "noop", 0)
    ELSE Op("start", "started",
            IF status = "initializing" THEN 0 ELSE IF status = "paused" THEN 1 ELSE 2)

\* variant: start() without its "if self._running: return"
StartBody_Unguarded ==
    /\ Unborn # {}
    /\ Len(outbound_queue) < qcap.outq
    /\ running' = TRUE
    /\ status' = "active"
    /\ last_activity_at' \in Now
    /\ tpc' = [tpc EXCEPT ![NewTask] = "new"]
    /\ task' = NewTask
    /\ outbound_queue' = Append(outbound_queue, SessionReadyMessage(SessionId, book_id, current_page))
    /\ UNCHANGED <<current_page, book_id, must_cancel, twait>>

StartBody ==
    IF running
    THEN UNCHANGED <<sessVars, taskVars, outbound_queue>>
    ELSE /\ Unborn # {}
         /\ Len(outbound_queue) < qcap.outq
         /\ running' = TRUE
         /\ status' = "active"
         /\ last_activity_at' \in Now
         /\ tpc' = [tpc EXCEPT ![NewTask] = "new"]
         /\ task' = NewTask
         /\ outbound_queue' = Append(outbound_queue, SessionReadyMessage(SessionId, book_id, current_page))
         /\ UNCHANGED <<current_page, book_id, must_cancel, twait>>

\* self._task.cancel(): a finished task ignores the request
CancelTask(mc, t) == IF t # 0 /\ Alive(t) THEN [mc EXCEPT ![t] = TRUE] ELSE mc

\* ReadingService.pause up to "await self._task" (self._running is True)
PauseBody ==
    /\ running' = FALSE
    /\ status' = "paused"
    /\ last_activity_at' \in Now
    /\ must_cancel' = CancelTask(must_cancel, task)
    /\ UNCHANGED <<current_page, book_id, task, tpc, twait>>

\* ReadingService.stop up to "await self._task" (self._running is True)
StopBody ==
    /\ running' = FALSE
    /\ status' = "completed"
    /\ last_activity_at' \in Now
    /\ must_cancel' = CancelTask(must_cancel, task)
    /\ UNCHANGED <<current_page, book_id, task, tpc, twait>>

\* "await self._task" suspends the caller unless the task is already done
MustAwait(t) == t # 0 /\ ~Finished(t)

\* ----- the public methods called from outside the event loop ---------------
ApiStart ==
    /\ api_pc = "idle"
    /\ StartBody
    /\ lastOp' = Started
    /\ UNCHANGED <<audio_buffer, trackVars, inbound_queue, envVars, apiVars, connVars>>

\* variant: pause() also empties the audio buffer
ApiPause_ClearsBuffer ==
    /\ api_pc = "idle"
    /\ IF ~running
       THEN /\ lastOp' = Op("pause", "noop", 0)
            /\ UNCHANGED <<sessVars, taskVars, apiVars, audio_buffer>>
       ELSE /\ PauseBody
            /\ audio_buffer' = <<>>
            /\ api_pc' = IF MustAwait(task) THEN "pause_wait" ELSE "idle"
            /\ api_wait' = task
            /\ lastOp' = Op("pause", IF MustAwait(task) THEN "await" ELSE "returned", 0)
    /\ UNCHANGED <<trackVars, queueVars, envVars, connVars>>

\* variant: pause() without its "if not self._running: return"
ApiPause_Unguarded ==
    /\ api_pc = "idle"
    /\ PauseBody
    /\ api_pc' = IF MustAwait(task) THEN "pause_wait" ELSE "idle"
    /\ api_wait' = task
    /\ lastOp' = Op("pause", IF MustAwait(task) THEN "await" ELSE "returned", 0)
    /\ UNCHANGED <<audio_buffer, trackVars, queueVars, envVars, connVars>>

ApiPause ==
    /\ api_pc = "idle"
    /\ IF ~running
       THEN /\ lastOp' = Op("pause", "noop", 0)
            /\ UNCHANGED <<sessVars, taskVars, apiVars>>
       ELSE /\ PauseBody
            /\ api_pc' = IF MustAwait(task) THEN "pause_wait" ELSE "idle"
            /\ api_wait' = task
            /\ lastOp' = Op("pause", IF MustAwait(task) THEN "await" ELSE "returned", 0)
    /\ UNCHANGED <<audio_buffer, trackVars, queueVars, envVars, connVars>>

\* variant: stop() without its "if not self._running: return"
ApiStop_Unguarded ==
    /\ api_pc = "idle"
    /\ StopBody
    /\ api_pc' = IF MustAwait(task) THEN "stop_wait" ELSE "idle"
    /\ api_wait' = task
    /\ lastOp' = Op("stop", IF MustAwait(task) THEN "await" ELSE "returned", 0)
    /\ UNCHANGED <<audio_buffer, trackVars, queueVars, envVars, connVars>>

\* stop(); a call that returns at once records whether it follows another stop()
ApiStop ==
    /\ api_pc = "idle"
    /\ IF ~running
       THEN /\ lastOp' = Op("stop", "noop", IF lastOp.op = "stop" THEN 1 ELSE 0)
            /\ UNCHANGED <<sessVars, taskVars, apiVars>>
       ELSE /\ StopBody
            /\ api_pc' = IF MustAwait(task) THEN "stop_wait" ELSE "idle"
            /\ api_wait' = task
            /\ lastOp' = Op("stop", IF MustAwait(task) THEN "await" ELSE "returned", 0)
    /\ UNCHANGED <<audio_buffer, trackVars, queueVars, envVars, connVars>>

\* the awaited task has ended: pause()/stop() returns to its caller
ApiReturn ==
    /\ api_pc \in {"pause_wait", "stop_wait"}
    /\ Finished(api_wait)
    /\ api_pc' = "idle"
    /\ lastOp' = Op(IF api_pc = "pause_wait" THEN "pause" ELSE "stop", "returned", 0)
    /\ UNCHANGED <<sessVars, audio_buffer, trackVars, taskVars, queueVars, envVars, api_wait, connVars>>

\* init_session / update_reader_state / ingest_audio / ack_event / close:
\* each wraps its arguments in an event and puts it on the inbound queue
Enqueue(e) ==
    /\ Len(inbound_queue) < qcap.inq
    /\ inbound_queue' = Append(inbound_queue, e)

\* ingest_audio: the frames are numbered in the order of their arrival
IngestAudio(limit) ==
    /\ nAudio < limit
    /\ nAudio' = nAudio + 1
    /\ Enqueue(IngestAudioEvent(nAudio + 1))
    /\ lastOp' = Quiet
    /\ UNCHANGED <<sessVars, audio_buffer, trackVars, taskVars, outbound_queue, nCtl, qcap, agentVars,
                   simpleVars, repoVars,
                   callerVars>>

ApiIngestAudio == IngestAudio(MaxAudio)

\* acknowledgements: of the ids that can be issued and of one that cannot
AckEvents == {AckEventEvent(EventId(n), s) : n \in 1..(MaxEvt + 1), s \in {"ok", "error"}}

CtlEvents ==
    {InitSessionEvent(p, b) : p \in Pages, b \in Books} \cup {UpdateReaderStateEvent(p) : p \in Pages}
    \cup AckEvents
    \cup {CloseEvent}

Control(e, limit) ==
    /\ nCtl < limit
    /\ nCtl' = nCtl + 1
    /\ Enqueue(e)
    /\ lastOp' = Quiet
    /\ UNCHANGED <<sessVars, audio_buffer, trackVars, taskVars, outbound_queue, nAudio, qcap, agentVars,
                   simpleVars, repoVars,
                   callerVars>>

ApiControl(e) == Control(e, MaxCtl)

\* ----- the event-processing task: _process_inbound_events ------------------
\* back at "while self._running" after a handler returned
AfterHandler(r) == IF r THEN "get" ELSE "done"

\* first run of the coroutine, up to the first wait on the inbound queue
TaskBegin(t) ==
    /\ tpc[t] = "new"
    /\ ~must_cancel[t]
    /\ tpc' = [tpc EXCEPT ![t] = AfterHandler(running)]
    /\ lastOp' = Quiet
    /\ UNCHANGED <<sessVars, audio_buffer, trackVars, running, task, must_cancel, twait,
                   queueVars, envVars, callerVars>>

\* asyncio.TimeoutError on an empty queue: continue, back to "while self._running"
TaskTimeout(t) ==
    /\ tpc[t] = "get"
    /\ ~must_cancel[t]
    /\ inbound_queue = <<>>
    /\ tpc' = [tpc EXCEPT ![t] = AfterHandler(running)]
    /\ lastOp' = Quiet
    /\ UNCHANGED <<sessVars, audio_buffer, trackVars, running, task, must_cancel, twait,
                   queueVars, envVars, callerVars>>

\* CancelledError delivered at the suspension point of the task
TaskCancelled(t) ==
    /\ must_cancel[t]
    /\ tpc[t] \in {"new", "get", "coach"}
    /\ tpc' = [tpc EXCEPT ![t] = "cancelled"]
    /\ must_cancel' = [must_cancel EXCEPT ![t] = FALSE]
    /\ lastOp' = Quiet
    /\ UNCHANGED <<sessVars, audio_buffer, trackVars, running, task, twait,
                   queueVars, envVars, callerVars>>

\* _handle_init_session
HandleInit(t, e) ==
    /\ Len(outbound_queue) < qcap.outq
    /\ current_page' = e.page
    /\ book_id' = e.book_id
    /\ status' = "active"
    /\ last_activity_at' \in Now
    /\ outbound_queue' = Append(outbound_queue, SessionReadyMessage(SessionId, e.book_id, e.page))
    /\ tpc' = [tpc EXCEPT ![t] = AfterHandler(running)]
    /\ UNCHANGED <<audio_buffer, trackVars, running, task, must_cancel, twait>>

\* _handle_update_reader_state
HandleUpdate(t, e) ==
    /\ current_page' = e.page
    /\ last_activity_at' \in Now
    /\ tpc' = [tpc EXCEPT ![t] = AfterHandler(running)]
    /\ UNCHANGED <<status, book_id, audio_buffer, trackVars, running, task, must_cancel, twait,
                   outbound_queue>>

\* variant: the buffer is emptied when it is dispatched
HandleAudio_ClearOnDispatch(t, e) ==
    LET appended == Append(audio_buffer, e.frame) IN
    /\ IF Len(appended) >= DispatchThreshold
       THEN /\ audio_buffer' = <<>>
            /\ tpc' = [tpc EXCEPT ![t] = "coach"]
       ELSE /\ audio_buffer' = appended
            /\ tpc' = [tpc EXCEPT ![t] = AfterHandler(running)]
    /\ UNCHANGED <<sessVars, trackVars, running, task, must_cancel, twait, outbound_queue>>

\* _handle_ingest_audio, and _process_audio_buffer up to the call of the engine
HandleAudio(t, e) ==
    LET appended == Append(audio_buffer, e.frame) IN
    /\ IF Len(appended) >= DispatchThreshold
       THEN /\ audio_buffer' = LastN(appended, BufferCap)
            /\ tpc' = [tpc EXCEPT ![t] = "coach"]
       ELSE /\ audio_buffer' = appended
            /\ tpc' = [tpc EXCEPT ![t] = AfterHandler(running)]
    /\ UNCHANGED <<sessVars, trackVars, running, task, must_cancel, twait, outbound_queue>>

\* variant: pop() without a default raises KeyError for an unknown id, which
\* the loop reports as INTERNAL_ERROR
HandleAck_PopRaises(t, e) ==
    /\ IF e.event_id \in DOMAIN pending_events
       THEN /\ pending_events' = [k \in DOMAIN pending_events \ {e.event_id} |-> pending_events[k]]
            /\ last_events' = LastN(Append(last_events, pending_events[e.event_id]),
                                    max_event_history)
            /\ acked' = Append(acked, e.event_id)
            /\ UNCHANGED outbound_queue
       ELSE /\ Len(outbound_queue) < qcap.outq
            /\ outbound_queue' = Append(outbound_queue, ErrorOutMessage("INTERNAL_ERROR"))
            /\ UNCHANGED <<pending_events, last_events, acked>>
    /\ tpc' = [tpc EXCEPT ![t] = AfterHandler(running)]
    /\ UNCHANGED <<sessVars, audio_buffer, max_event_history, event_id_counter, issued, tracked,
                   running, task, must_cancel, twait>>

\* variant: an acknowledgement with status "error" keeps the event pending
HandleAck_ErrorKept(t, e) ==
    /\ IF e.event_id \in DOMAIN pending_events /\ e.status # "error"
       THEN /\ pending_events' = [k \in DOMAIN pending_events \ {e.event_id} |-> pending_events[k]]
            /\ last_events' = LastN(Append(last_events, pending_events[e.event_id]),
                                    max_event_history)
            /\ acked' = Append(acked, e.event_id)
       ELSE UNCHANGED <<pending_events, last_events, acked>>
    /\ tpc' = [tpc EXCEPT ![t] = AfterHandler(running)]
    /\ UNCHANGED <<sessVars, audio_buffer, max_event_history, event_id_counter, issued, tracked,
                   running, task, must_cancel, twait, outbound_queue>>

\* _handle_ack_event
HandleAck(t, e) ==
    /\ IF e.event_id \in DOMAIN pending_events
       THEN /\ pending_events' = [k \in DOMAIN pending_events \ {e.event_id} |-> pending_events[k]]
            /\ last_events' = LastN(Append(last_events, pending_events[e.event_id]),
                                    max_event_history)
            /\ acked' = Append(acked, e.event_id)
       ELSE UNCHANGED <<pending_events, last_events, acked>>
    /\ tpc' = [tpc EXCEPT ![t] = AfterHandler(running)]
    /\ UNCHANGED <<sessVars, audio_buffer, max_event_history, event_id_counter, issued, tracked,
                   running, task, must_cancel, twait, outbound_queue>>

\* variant: the session is closed without the "Session closed" notice
HandleClose_NoNotice(t) ==
    /\ UNCHANGED outbound_queue
    /\ status' = "completed"
    /\ IF ~running
       THEN /\ tpc' = [tpc EXCEPT ![t] = "done"]
            /\ UNCHANGED <<last_activity_at, running, must_cancel, twait>>
       ELSE /\ running' = FALSE
            /\ last_activity_at' \in Now
            /\ must_cancel' = CancelTask(must_cancel, task)
            /\ IF MustAwait(task)
               THEN /\ tpc' = [tpc EXCEPT ![t] = "stopwait"]
                    /\ twait' = [twait EXCEPT ![t] = task]
               ELSE /\ tpc' = [tpc EXCEPT ![t] = "done"]
                    /\ UNCHANGED twait
    /\ UNCHANGED <<current_page, book_id, audio_buffer, trackVars, task>>

\* _handle_close: the notice, then stop() called from inside the task
HandleClose(t) ==
    /\ Len(outbound_queue) < qcap.outq
    /\ outbound_queue' = Append(outbound_queue, NoticeMessage)
    /\ status' = "completed"
    /\ IF ~running
       THEN /\ tpc' = [tpc EXCEPT ![t] = "done"]
            /\ UNCHANGED <<last_activity_at, running, must_cancel, twait>>
       ELSE /\ running' = FALSE
            /\ last_activity_at' \in Now
            /\ must_cancel' = CancelTask(must_cancel, task)
            /\ IF MustAwait(task)
               THEN /\ tpc' = [tpc EXCEPT ![t] = "stopwait"]
                    /\ twait' = [twait EXCEPT ![t] = task]
               ELSE /\ tpc' = [tpc EXCEPT ![t] = "done"]
                    /\ UNCHANGED twait
    /\ UNCHANGED <<current_page, book_id, audio_buffer, trackVars, task>>

\* variant: an event of unknown type raises in _handle_event
HandleUnknown_Raises(t) ==
    /\ Len(outbound_queue) < qcap.outq
    /\ outbound_queue' = Append(outbound_queue, ErrorOutMessage("INTERNAL_ERROR"))
    /\ tpc' = [tpc EXCEPT ![t] = AfterHandler(running)]
    /\ UNCHANGED <<sessVars, audio_buffer, trackVars, running, task, must_cancel, twait>>

\* _handle_event, else branch: the unknown event is logged
HandleUnknown(t) ==
    /\ tpc' = [tpc EXCEPT ![t] = AfterHandler(running)]
    /\ UNCHANGED <<sessVars, audio_buffer, trackVars, running, task, must_cancel, twait,
                   outbound_queue>>

\* the record of a handled event: for an acknowledgement the number of the id
\* it names and what the handler logs (unknown event, error reported, or ack)
Handled(e) ==
    IF e.type = "ack"
    THEN Op("handle",
            IF e.event_id \notin DOMAIN pending_events THEN "ack_unknown"
            ELSE IF e.status = "error" THEN "ack_error" ELSE "ack",
            e.event_id[3])
    ELSE Op("handle", e.type, 0)

\* _handle_event: one event is taken from the inbound queue and routed
TaskHandle(t) ==
    /\ tpc[t] = "get"
    /\ ~must_cancel[t]
    /\ inbound_queue # <<>>
    /\ LET e == Get(inbound_queue).item IN
       /\ inbound_queue' = Get(inbound_queue).rest
       /\ CASE e.type = "init" -> HandleInit(t, e)
            [] e.type = "update" -> HandleUpdate(t, e)
            [] e.type = "audio" -> HandleAudio(t, e)
            [] e.type = "ack" -> HandleAck(t, e)
            [] e.type = "close" -> HandleClose(t)
            [] OTHER -> HandleUnknown(t)
       /\ lastOp' = Handled(e)
    /\ UNCHANGED <<envVars, callerVars>>

\* "await self._task" inside stop() ends: for the task itself with the
\* CancelledError that stop() swallows, for another task when that task ended
TaskStopResume(t) ==
    /\ tpc[t] = "stopwait"
    /\ IF twait[t] = t THEN must_cancel[t] ELSE Finished(twait[t])
    /\ must_cancel' = [must_cancel EXCEPT ![t] = FALSE]
    /\ tpc' = [tpc EXCEPT ![t] = AfterHandler(running)]
    /\ lastOp' = Op("loop", "stop_returned", 0)
    /\ UNCHANGED <<sessVars, audio_buffer, trackVars, running, task, twait,
                   queueVars, envVars, callerVars>>

\* ----- page changes and the pending-event protocol -------------------------
\* variant: the upper bound of the range check is missing
ValidPage_NoUpperBound(p) == 1 <= p

ValidPage(p) == 1 <= p /\ p <= TotalPages

\* variant: the message is left without the allocated event id
WithEventId_Unstamped(m, id) == m

\* the message with the allocated event id attached to its payload
WithEventId(m, id) == [m EXCEPT !.event_id = id]

\* self.pending_events[event_id] = page_change
Track(pe, id, payload) == [k \in DOMAIN pe \cup {id} |-> IF k = id THEN payload ELSE pe[k]]

\* variant: the event-id counter is read but not advanced
EmitTracked_NoIncrement(m) ==
    LET id == EventId(event_id_counter + 1) IN
    /\ event_id_counter < MaxEvt
    /\ Len(outbound_queue) < qcap.outq
    /\ event_id_counter' = event_id_counter
    /\ issued' = Append(issued, id)
    /\ pending_events' = Track(pending_events, id, PageChange(WithEventId(m, id)))
    /\ tracked' = Append(tracked, id)
    /\ outbound_queue' = Append(outbound_queue, WithEventId(m, id))

\* variant: the message is enqueued but its payload is never stored as pending
EmitTracked_NotStored(m) ==
    LET id == EventId(event_id_counter + 1) IN
    /\ event_id_counter < MaxEvt
    /\ Len(outbound_queue) < qcap.outq
    /\ event_id_counter' = event_id_counter + 1
    /\ issued' = Append(issued, id)
    /\ UNCHANGED <<pending_events, tracked>>
    /\ outbound_queue' = Append(outbound_queue, WithEventId(m, id))

\* allocate the next event id, track the payload, then enqueue the message
EmitTracked(m) ==
    LET id == EventId(event_id_counter + 1) IN
    /\ event_id_counter < MaxEvt
    /\ Len(outbound_queue) < qcap.outq
    /\ event_id_counter' = event_id_counter + 1
    /\ issued' = Append(issued, id)
    /\ pending_events' = Track(pending_events, id, PageChange(WithEventId(m, id)))
    /\ tracked' = Append(tracked, id)
    /\ outbound_queue' = Append(outbound_queue, WithEventId(m, id))

\* variant: the put on the outbound queue is a suspension point, so a
\* cancellation requested during the engine call lands after the session and
\* the pending map were written and before the message is enqueued
EngineReturn_PutSuspends(t, d) ==
    /\ tpc[t] = "coach"
    /\ IF must_cancel[t]
       THEN /\ d.type = "page_change"
            /\ ValidPage(d.page)
            /\ event_id_counter < MaxEvt
            /\ current_page' = d.page
            /\ last_activity_at' \in Now
            /\ event_id_counter' = event_id_counter + 1
            /\ pending_events' = Track(pending_events, EventId(event_id_counter + 1),
                                       PageChange(WithEventId(d, EventId(event_id_counter + 1))))
            /\ tracked' = Append(tracked, EventId(event_id_counter + 1))
            /\ tpc' = [tpc EXCEPT ![t] = "cancelled"]
            /\ must_cancel' = [must_cancel EXCEPT ![t] = FALSE]
            /\ UNCHANGED <<status, book_id, last_events, max_event_history, acked, issued,
                           outbound_queue>>
       ELSE /\ IF d.type = "page_change"
               THEN IF ValidPage(d.page)
                    THEN /\ current_page' = d.page
                         /\ last_activity_at' \in Now
                         /\ EmitTracked(d)
                         /\ UNCHANGED <<status, book_id, last_events, max_event_history, acked>>
                    ELSE UNCHANGED <<sessVars, trackVars, outbound_queue>>
               ELSE /\ Len(outbound_queue) < qcap.outq
                    /\ outbound_queue' = Append(outbound_queue, d)
                    /\ UNCHANGED <<sessVars, trackVars>>
            /\ tpc' = [tpc EXCEPT ![t] = AfterHandler(running)]
            /\ UNCHANGED must_cancel
    /\ lastOp' = Op("coach", d.type, d.page)
    /\ UNCHANGED <<audio_buffer, running, task, twait, inbound_queue, envVars, callerVars>>

\* variant: only a Feedback reply of the engine is forwarded to the client
EngineReturn_FeedbackOnly(t, d) ==
    /\ tpc[t] = "coach"
    /\ ~must_cancel[t]
    /\ IF d.type = "page_change"
       THEN IF ValidPage(d.page)
            THEN /\ current_page' = d.page
                 /\ last_activity_at' \in Now
                 /\ EmitTracked(d)
                 /\ UNCHANGED <<status, book_id, last_events, max_event_history, acked>>
            ELSE UNCHANGED <<sessVars, trackVars, outbound_queue>>
       ELSE /\ Len(outbound_queue) < qcap.outq
            /\ outbound_queue' = IF d.type = "feedback" THEN Append(outbound_queue, d)
                                 ELSE outbound_queue
            /\ UNCHANGED <<sessVars, trackVars>>
    /\ tpc' = [tpc EXCEPT ![t] = AfterHandler(running)]
    /\ lastOp' = Op("coach", d.type, d.page)
    /\ UNCHANGED <<audio_buffer, running, task, must_cancel, twait, inbound_queue,
                   envVars, callerVars>>

\* _process_audio_buffer after the engine has answered with decision d
EngineReturn(t, d) ==
    /\ tpc[t] = "coach"
    /\ ~must_cancel[t]
    /\ IF d.type = "page_change"
       THEN IF ValidPage(d.page)
            THEN /\ current_page' = d.page
                 /\ last_activity_at' \in Now
                 /\ EmitTracked(d)
                 /\ UNCHANGED <<status, book_id, last_events, max_event_history, acked>>
            ELSE UNCHANGED <<sessVars, trackVars, outbound_queue>>
       ELSE /\ Len(outbound_queue) < qcap.outq
            /\ outbound_queue' = Append(outbound_queue, d)
            /\ UNCHANGED <<sessVars, trackVars>>
    /\ tpc' = [tpc EXCEPT ![t] = AfterHandler(running)]
    /\ lastOp' = Op("coach", d.type, d.page)
    /\ UNCHANGED <<audio_buffer, running, task, must_cancel, twait, inbound_queue,
                   envVars, callerVars>>

\* variant: an exception of the engine ends the event-processing task
EngineRaise_Fatal(t) ==
    /\ tpc[t] = "coach"
    /\ ~must_cancel[t]
    /\ tpc' = [tpc EXCEPT ![t] = "done"]
    /\ lastOp' = Op("coach", "raised", 0)
    /\ UNCHANGED <<sessVars, audio_buffer, trackVars, running, task, must_cancel, twait,
                   queueVars, envVars, callerVars>>

\* the engine raises: the loop reports INTERNAL_ERROR and goes on
EngineRaise(t) ==
    /\ tpc[t] = "coach"
    /\ ~must_cancel[t]
    /\ Len(outbound_queue) < qcap.outq
    /\ outbound_queue' = Append(outbound_queue, ErrorOutMessage("INTERNAL_ERROR"))
    /\ tpc' = [tpc EXCEPT ![t] = AfterHandler(running)]
    /\ lastOp' = Op("coach", "raised", 0)
    /\ UNCHANGED <<sessVars, audio_buffer, trackVars, running, task, must_cancel, twait,
                   inbound_queue, envVars, callerVars>>

\* request_page_turn(direction), with _emit_page_change
RequestPageTurn(direction) ==
    /\ IF \/ (direction = "prev" /\ current_page <= 1)
          \/ (direction = "next" /\ current_page >= TotalPages)
       THEN /\ Len(outbound_queue) < qcap.outq
            /\ outbound_queue' = Append(outbound_queue, NoticeMessage)
            /\ lastOp' = Op("turn", "refused", 0)
            /\ UNCHANGED <<sessVars, trackVars>>
       ELSE LET new_page == IF direction = "next" THEN current_page + 1
                            ELSE IF direction = "prev" THEN current_page - 1
                            ELSE current_page IN
            /\ current_page' = new_page
            /\ last_activity_at' \in Now
            /\ IF new_page >= 1
               THEN /\ EmitTracked(PageChangeMessage(new_page, direction))
                    /\ lastOp' = Op("turn", "turned", 0)
               ELSE \* PageChange(page=...) with Field(ge=1) raises ValidationError
                    \* after the counter was advanced
                    /\ event_id_counter < MaxEvt
                    /\ event_id_counter' = event_id_counter + 1
                    /\ lastOp' = Op("turn", "raised", 0)
                    /\ UNCHANGED <<pending_events, issued, tracked, outbound_queue>>
            /\ UNCHANGED <<status, book_id, last_events, max_event_history, acked>>
    /\ UNCHANGED <<audio_buffer, taskVars, inbound_queue, envVars, callerVars>>

\* a reader of the outbound queue takes the oldest message
ApiConsume ==
    /\ outbound_queue # <<>>
    /\ outbound_queue' = Get(outbound_queue).rest
    /\ lastOp' = Quiet
    /\ UNCHANGED <<sessVars, audio_buffer, trackVars, taskVars, inbound_queue, envVars, callerVars>>

\* ----- the service driven through its public methods -----------------------
TaskStep ==
    \E t \in Tasks :
        \/ TaskBegin(t)
        \/ TaskTimeout(t)
        \/ TaskCancelled(t)
        \/ TaskHandle(t)
        \/ TaskStopResume(t)
        \/ \E d \in Decisions : EngineReturn(t, d)
        \/ EngineRaise(t)

Next ==
    \/ ApiStart
    \/ ApiPause
    \/ ApiStop
    \/ ApiReturn
    \/ ApiIngestAudio
    \/ \E e \in CtlEvents : ApiControl(e)
    \/ \E d \in {"next", "prev"} : RequestPageTurn(d)
    \/ ApiConsume
    \/ TaskStep

Spec == Init /\ [][Next]_vars

\* ----- a long audio stream on a started service ------------------------------
StreamAudio == IngestAudio(MaxStream)

AudioNext ==
    \/ ApiStart
    \/ StreamAudio
    \/ ApiConsume
    \/ \E t \in Tasks :
        \/ TaskBegin(t)
        \/ TaskTimeout(t)
        \/ TaskHandle(t)
        \/ \E d \in Decisions : EngineReturn(t, d)
        \/ EngineRaise(t)

AudioSpec == Init /\ [][AudioNext]_vars

\* ----- page turns and acknowledgements with a small history capacity ---------
\* the owner of the service sets max_event_history before the service is used
Configure(n) ==
    /\ lastOp = Op("construct", "none", 0)
    /\ max_event_history' = n
    /\ lastOp' = Op("configure", "none", n)
    /\ UNCHANGED <<sessVars, audio_buffer, pending_events, last_events, event_id_counter,
                   issued, tracked, acked, taskVars, queueVars, envVars, callerVars>>

AckControl == \E e \in AckEvents : Control(e, MaxAcks)

HistoryNext ==
    \/ \E n \in 0..MaxHistory : Configure(n)
    \/ ApiStart
    \/ \E d \in {"next", "prev"} : RequestPageTurn(d)
    \/ AckControl
    \/ ApiConsume
    \/ \E t \in Tasks :
        \/ TaskBegin(t)
        \/ TaskTimeout(t)
        \/ TaskHandle(t)

HistorySpec == Init /\ [][HistoryNext]_vars

\* what a repository keeps of the session when it saves it
Stored == <<status, current_page, book_id, last_activity_at>>

\* ===== one websocket connection =============================================
\* The controller has created the service; it starts it and hands the socket
\* to WebSocketHandler.handle_websocket.
ConnInit ==
    /\ SvcInit
    /\ qcap = Backlog(MaxQueue, MaxOut)
    /\ AgentInit
    /\ SimpleIdle
    /\ RepoInit
    /\ api_pc = "idle"
    /\ api_wait = 0
    /\ sup_pc = "start"
    /\ sup_wait = 0
    /\ send_pc = "unborn"
    /\ send_item = NullDecision
    /\ send_exc = "none"
    /\ send_cancel = FALSE
    /\ recv_pc = "unborn"
    /\ recv_exc = "none"
    /\ recv_cancel = FALSE
    /\ ws_closed = 0
    /\ wire = <<>>
    /\ ctl_pc = "accepted"
    /\ persist_pc = "unborn"
    /\ persist_cancel = FALSE
    /\ nPeriodic = 0
    /\ nFinal = 0
    /\ saved = None
    /\ ep_closed = 0

\* ----- websocket_endpoint: the first frame of an accepted connection ---------
\* what the client may send first: a session.create with both fields, a JSON
\* object of another type, a session.create that lacks student_id or book_id,
\* a binary frame, text that is not JSON, JSON that is not an object, or the
\* disconnect frame
FirstFrames == {"create", "other_type", "missing_fields", "binary", "non_json", "not_object",
                "disconnect"}

\* frames that websocket_endpoint answers itself
InvalidMessageError == [type |-> "error", code |-> "INVALID_MESSAGE"]

SessionCreatedFrame == [type |-> "session.created", session_id |-> SessionId]

EndpointUnchanged == UNCHANGED <<sessVars, audio_buffer, trackVars, taskVars, queueVars, envVars,
                                 apiVars, supVars, sendVars, recvVars, persist_pc,
                                 persist_cancel, nPeriodic, nFinal>>

\* "message = await websocket.receive_json()" and the checks on the message:
\* receive_json raises for a frame without text, for text that json.loads
\* rejects and for a disconnect; message.get raises for JSON that is not an
\* object; "except Exception" then only closes the socket
EndpointFirstFrame(kind) ==
    /\ ctl_pc = "accepted"
    /\ CASE kind = "create" ->
              /\ ctl_pc' = "create"
              /\ UNCHANGED <<wire, ep_closed>>
         [] kind \in {"other_type", "missing_fields"} ->
              /\ wire' = Append(wire, InvalidMessageError)
              /\ ep_closed' = ep_closed + 1
              /\ ctl_pc' = "rejected"
         [] OTHER ->
              /\ ep_closed' = ep_closed + 1
              /\ ctl_pc' = "failed"
              /\ UNCHANGED wire
    /\ lastOp' = Op("first_frame", kind, 0)
    /\ UNCHANGED saved
    /\ EndpointUnchanged

\* variant: session.created is sent before the session is saved
CtlCreate_NotSaved(sent) ==
    /\ ctl_pc = "create"
    /\ IF sent
       THEN /\ wire' = Append(wire, SessionCreatedFrame)
            /\ ctl_pc' = "start"
            /\ UNCHANGED ep_closed
       ELSE /\ ep_closed' = ep_closed + 1
            /\ ctl_pc' = "failed"
            /\ UNCHANGED wire
    /\ lastOp' = Op("controller", "create", 0)
    /\ UNCHANGED saved
    /\ EndpointUnchanged

\* handle_websocket_connection for a new session: save_session, then
\* send_json(session.created); if the socket raises there, the exception
\* reaches websocket_endpoint, which closes the socket
CtlCreate(sent) ==
    /\ ctl_pc = "create"
    /\ saved' = Stored
    /\ IF sent
       THEN /\ wire' = Append(wire, SessionCreatedFrame)
            /\ ctl_pc' = "start"
            /\ UNCHANGED ep_closed
       ELSE /\ ep_closed' = ep_closed + 1
            /\ ctl_pc' = "failed"
            /\ UNCHANGED wire
    /\ lastOp' = Op("controller", "create", 0)
    /\ EndpointUnchanged

\* controller: reading_service.start(); handle_websocket creates both tasks and
\* suspends in asyncio.wait
SupStart ==
    /\ sup_pc = "start"
    /\ ctl_pc = "start"
    /\ StartBody
    /\ sup_pc' = "wait"
    /\ ctl_pc' = "handling"
    /\ persist_pc' = "sleep"
    /\ send_pc' = "new"
    /\ recv_pc' = "recv"
    /\ lastOp' = Started
    /\ UNCHANGED <<audio_buffer, trackVars, inbound_queue, envVars, apiVars, sup_wait,
                   ws_closed, send_item, send_exc, send_cancel, recv_exc, recv_cancel, wire,
                   persist_cancel, nPeriodic, nFinal, saved, ep_closed>>

\* ----- _send_loop -------------------------------------------------------------
\* the match statement: a message of no known class raises ValueError,
\* any other is handed to the socket
SendMatch(m) ==
    IF m.type = "null"
    THEN /\ send_pc' = "failed"
         /\ send_exc' = "err"
         /\ UNCHANGED send_item
    ELSE /\ send_pc' = "sending"
         /\ send_item' = m
         /\ UNCHANGED send_exc

\* from "while self._reading_service._running" to the next suspension
SendLoopTop ==
    IF ~running
    THEN /\ send_pc' = "done"
         /\ UNCHANGED <<send_item, send_exc, outbound_queue>>
    ELSE IF outbound_queue = <<>>
    THEN /\ send_pc' = "get"
         /\ UNCHANGED <<send_item, send_exc, outbound_queue>>
    ELSE /\ outbound_queue' = Get(outbound_queue).rest
         /\ SendMatch(Get(outbound_queue).item)

SendBegin ==
    /\ send_pc = "new"
    /\ ~send_cancel
    /\ SendLoopTop
    /\ lastOp' = Quiet
    /\ UNCHANGED <<sessVars, audio_buffer, trackVars, taskVars, inbound_queue, envVars,
                   apiVars, supVars, ctlVars, send_cancel, recvVars, wire>>

\* outbound_queue.get() returns
SendWake ==
    /\ send_pc = "get"
    /\ ~send_cancel
    /\ outbound_queue # <<>>
    /\ outbound_queue' = Get(outbound_queue).rest
    /\ SendMatch(Get(outbound_queue).item)
    /\ lastOp' = Quiet
    /\ UNCHANGED <<sessVars, audio_buffer, trackVars, taskVars, inbound_queue, envVars,
                   apiVars, supVars, ctlVars, send_cancel, recvVars, wire>>

\* websocket.send_text / send_bytes returns: the frame is on the wire
SendComplete ==
    /\ send_pc = "sending"
    /\ ~send_cancel
    /\ wire' = Append(wire, send_item)
    /\ SendLoopTop
    /\ lastOp' = Quiet
    /\ UNCHANGED <<sessVars, audio_buffer, trackVars, taskVars, inbound_queue, envVars,
                   apiVars, supVars, ctlVars, send_cancel, recvVars>>

\* the socket raises in send_text / send_bytes
SendRaise(k) ==
    /\ send_pc = "sending"
    /\ ~send_cancel
    /\ send_pc' = "failed"
    /\ send_exc' = k
    /\ lastOp' = Quiet
    /\ UNCHANGED <<sessVars, audio_buffer, trackVars, taskVars, queueVars, envVars,
                   apiVars, supVars, ctlVars, send_item, send_cancel, recvVars, wire>>

SendCancelled ==
    /\ send_cancel
    /\ send_pc \in {"new", "get", "sending"}
    /\ send_pc' = "cancelled"
    /\ send_cancel' = FALSE
    /\ lastOp' = Quiet
    /\ UNCHANGED <<sessVars, audio_buffer, trackVars, taskVars, queueVars, envVars,
                   apiVars, supVars, ctlVars, send_item, send_exc, recvVars, wire>>

\* ----- _receive_loop ----------------------------------------------------------
RecvUnchanged == UNCHANGED <<sessVars, audio_buffer, trackVars, taskVars, outbound_queue,
                             apiVars, supVars, ctlVars, sendVars, recv_exc, recv_cancel, wire>>

\* a binary frame: ingest_audio
RecvAudio ==
    /\ recv_pc = "recv"
    /\ ~recv_cancel
    /\ nAudio < MaxAudio
    /\ nAudio' = nAudio + 1
    /\ Enqueue(IngestAudioEvent(nAudio + 1))
    /\ lastOp' = Quiet
    /\ RecvUnchanged
    /\ UNCHANGED <<nCtl, qcap, agentVars, simpleVars, repoVars, recv_pc>>

\* _handle_control_message: event.ack and reader.update
WireEvents == {UpdateReaderStateEvent(p) : p \in Pages} \cup AckEvents

RecvControl(e) ==
    /\ recv_pc = "recv"
    /\ ~recv_cancel
    /\ nCtl < MaxCtl
    /\ nCtl' = nCtl + 1
    /\ Enqueue(e)
    /\ lastOp' = Quiet
    /\ RecvUnchanged
    /\ UNCHANGED <<nAudio, qcap, agentVars, simpleVars, repoVars, recv_pc>>

\* a control message of unknown type, or a text frame that is not JSON: the
\* loop logs it and receives the next frame
IgnoredFrames == {"unknown_type", "non_json"}

RecvIgnored(kind) ==
    /\ recv_pc = "recv"
    /\ ~recv_cancel
    /\ lastOp' = Op("recv", kind, 0)
    /\ RecvUnchanged
    /\ UNCHANGED <<inbound_queue, envVars, recv_pc>>

\* websocket.disconnect: close() puts a CloseEvent, the loop breaks
\* variant: the receive loop goes on after the disconnect frame
RecvDisconnect_NoBreak ==
    /\ recv_pc = "recv"
    /\ ~recv_cancel
    /\ nCtl < MaxCtl
    /\ nCtl' = nCtl + 1
    /\ Enqueue(CloseEvent)
    /\ lastOp' = Quiet
    /\ RecvUnchanged
    /\ UNCHANGED <<nAudio, qcap, agentVars, simpleVars, repoVars, recv_pc>>

RecvDisconnect ==
    /\ recv_pc = "recv"
    /\ ~recv_cancel
    /\ Enqueue(CloseEvent)
    /\ recv_pc' = "done"
    /\ lastOp' = Quiet
    /\ RecvUnchanged
    /\ UNCHANGED envVars

\* websocket.receive() raises
RecvRaise(k) ==
    /\ recv_pc = "recv"
    /\ ~recv_cancel
    /\ recv_pc' = "failed"
    /\ recv_exc' = k
    /\ lastOp' = Quiet
    /\ UNCHANGED <<sessVars, audio_buffer, trackVars, taskVars, queueVars, envVars,
                   apiVars, supVars, ctlVars, sendVars, recv_cancel, wire>>

RecvCancelled ==
    /\ recv_cancel
    /\ recv_pc = "recv"
    /\ recv_pc' = "cancelled"
    /\ recv_cancel' = FALSE
    /\ lastOp' = Quiet
    /\ UNCHANGED <<sessVars, audio_buffer, trackVars, taskVars, queueVars, envVars,
                   apiVars, supVars, ctlVars, sendVars, recv_exc, wire>>

ExcKinds == {"wsd", "err"}

\* ----- handle_websocket: the supervisor ---------------------------------------
Ended(pc) == pc \in {"done", "failed", "cancelled"}

\* asyncio.wait(..., return_when=FIRST_EXCEPTION): some task raised, or all ended
WaitReturns == send_pc = "failed" \/ recv_pc = "failed" \/ (Ended(send_pc) /\ Ended(recv_pc))

\* the exceptions of the tasks in "done"
DoneExceptions ==
    (IF send_pc = "failed" THEN {send_exc} ELSE {})
    \cup (IF recv_pc = "failed" THEN {recv_exc} ELSE {})

\* finally: cancel the tasks that are not done, then wait in gather
CancelAndGather ==
    /\ send_cancel' = ~Ended(send_pc)
    /\ recv_cancel' = ~Ended(recv_pc)
    /\ sup_pc' = "gather"
    /\ UNCHANGED sup_wait

\* asyncio.wait returns; the first exception found is raised and handled:
\* WebSocketDisconnect -> pause(), any other -> stop(); then the finally block
SupWaitReturn ==
    /\ sup_pc = "wait"
    /\ WaitReturns
    /\ IF ~running
       THEN /\ CancelAndGather
            /\ lastOp' = Op("supervisor", "finally", 0)
            /\ UNCHANGED <<sessVars, taskVars>>
       ELSE /\ \/ /\ "wsd" \in DoneExceptions
                  /\ PauseBody
                  /\ lastOp' = Op("supervisor", "pause", 0)
               \/ /\ DoneExceptions \ {"wsd"} # {} \/ DoneExceptions = {}
                  /\ StopBody
                  /\ lastOp' = Op("supervisor", "stop", 0)
            /\ IF MustAwait(task)
               THEN /\ sup_pc' = IF DoneExceptions = {} THEN "finally_wait" ELSE "except_wait"
                    /\ sup_wait' = task
                    /\ UNCHANGED <<send_cancel, recv_cancel>>
               ELSE CancelAndGather
    /\ UNCHANGED <<audio_buffer, trackVars, queueVars, envVars, apiVars, ws_closed,
                   send_pc, send_item, send_exc, recv_pc, recv_exc, wire, ctlVars>>

\* the awaited pause()/stop() returned. After the except clause the finally
\* block calls stop(); after the stop() of the finally block the tasks that are
\* not done are cancelled and gathered
SupAwaitReturn ==
    /\ sup_pc \in {"except_wait", "finally_wait"}
    /\ Finished(sup_wait)
    /\ IF sup_pc = "finally_wait" \/ ~running
       THEN /\ CancelAndGather
            /\ UNCHANGED <<sessVars, taskVars>>
       ELSE /\ StopBody
            /\ IF MustAwait(task)
               THEN /\ sup_pc' = "finally_wait"
                    /\ sup_wait' = task
                    /\ UNCHANGED <<send_cancel, recv_cancel>>
               ELSE CancelAndGather
    /\ lastOp' = Op("supervisor", "finally", 0)
    /\ UNCHANGED <<audio_buffer, trackVars, queueVars, envVars, apiVars, ws_closed,
                   send_pc, send_item, send_exc, recv_pc, recv_exc, wire, ctlVars>>

\* variant: the socket is closed without waiting for the cancelled tasks
SupClose_NoGather ==
    /\ sup_pc = "gather"
    /\ ws_closed' = ws_closed + 1
    /\ sup_pc' = "returned"
    /\ lastOp' = Op("supervisor", "returned", 0)
    /\ UNCHANGED <<sessVars, audio_buffer, trackVars, taskVars, queueVars, envVars, apiVars,
                   sup_wait, sendVars, recvVars, wire, ctlVars>>

\* gather returned: websocket.close(), and handle_websocket returns
SupClose ==
    /\ sup_pc = "gather"
    /\ Ended(send_pc)
    /\ Ended(recv_pc)
    /\ ws_closed' = ws_closed + 1
    /\ sup_pc' = "returned"
    /\ lastOp' = Op("supervisor", "returned", 0)
    /\ UNCHANGED <<sessVars, audio_buffer, trackVars, taskVars, queueVars, envVars, apiVars,
                   sup_wait, sendVars, recvVars, wire, ctlVars>>

\* ----- the controller: periodic saves and the final save ----------------------
CtlUnchanged == UNCHANGED <<sessVars, audio_buffer, trackVars, taskVars, queueVars, envVars,
                            apiVars, supVars, sendVars, recvVars, wire, ep_closed>>

\* _periodic_session_save: the sleep has elapsed. A repository with the
\* "update" alias stores the session; one without it raises AttributeError,
\* which the loop logs. Either way the task goes back to sleep.
PersistTick(has_update) ==
    /\ persist_pc = "sleep"
    /\ ~persist_cancel
    /\ IF has_update
       THEN /\ nPeriodic < MaxSaves
            /\ nPeriodic' = nPeriodic + 1
            /\ saved' = Stored
       ELSE UNCHANGED <<nPeriodic, saved>>
    /\ lastOp' = Quiet
    /\ CtlUnchanged
    /\ UNCHANGED <<ctl_pc, persist_pc, persist_cancel, nFinal>>

\* CancelledError in the sleep: the loop breaks and the task ends
PersistCancelled ==
    /\ persist_pc = "sleep"
    /\ persist_cancel
    /\ persist_pc' = "done"
    /\ persist_cancel' = FALSE
    /\ lastOp' = Quiet
    /\ CtlUnchanged
    /\ UNCHANGED <<ctl_pc, nPeriodic, nFinal, saved>>

\* handle_websocket returned: persist_task.cancel(), then "await persist_task"
CtlCleanup ==
    /\ ctl_pc = "handling"
    /\ sup_pc = "returned"
    /\ persist_cancel' = (persist_pc = "sleep")
    /\ ctl_pc' = "await_persist"
    /\ lastOp' = Quiet
    /\ CtlUnchanged
    /\ UNCHANGED <<persist_pc, nPeriodic, nFinal, saved>>

\* variant: the final save does not wait for the periodic-save task to end
CtlFinalSave_NoAwait ==
    /\ ctl_pc = "await_persist"
    /\ saved' = Stored
    /\ nFinal' = nFinal + 1
    /\ ctl_pc' = "returned"
    /\ lastOp' = Op("controller", "final_save", 0)
    /\ CtlUnchanged
    /\ UNCHANGED <<persist_pc, persist_cancel, nPeriodic>>

\* the periodic-save task has ended: update_session(reading_service.session)
CtlFinalSave ==
    /\ ctl_pc = "await_persist"
    /\ persist_pc = "done"
    /\ saved' = Stored
    /\ nFinal' = nFinal + 1
    /\ ctl_pc' = "returned"
    /\ lastOp' = Op("controller", "final_save", 0)
    /\ CtlUnchanged
    /\ UNCHANGED <<persist_pc, persist_cancel, nPeriodic>>

CtlStep ==
    \/ \E kind \in FirstFrames : EndpointFirstFrame(kind)
    \/ \E sent \in BOOLEAN : CtlCreate(sent)
    \/ \E has_update \in BOOLEAN : PersistTick(has_update)
    \/ PersistCancelled
    \/ CtlCleanup
    \/ CtlFinalSave

SendStep ==
    \/ SendBegin
    \/ SendWake
    \/ SendComplete
    \/ \E k \in ExcKinds : SendRaise(k)
    \/ SendCancelled

RecvStep ==
    \/ RecvAudio
    \/ \E e \in WireEvents : RecvControl(e)
    \/ \E kind \in IgnoredFrames : RecvIgnored(kind)
    \/ RecvDisconnect
    \/ \E k \in ExcKinds : RecvRaise(k)
    \/ RecvCancelled

SupStep ==
    \/ SupStart
    \/ SupWaitReturn
    \/ SupAwaitReturn
    \/ SupClose

ConnNext ==
    \/ SupStep
    \/ CtlStep
    \/ SendStep
    \/ RecvStep
    \/ TaskStep

ConnSpec == ConnInit /\ [][ConnNext]_vars

\* the event loop runs every task that is ready: the supervisor, the send loop
\* and the event-processing task each take their next step when they can
\* (which includes the return of an engine call in flight). What the client
\* sends, and when, is not forced.
FairConnSpec ==
    /\ ConnSpec
    /\ WF_vars(SupStep)
    /\ WF_vars(SendStep)
    /\ WF_vars(TaskStep)

\* ----- page turns on request, after reader updates to any page ----------------
\* reader.update carries whatever page number the client sends
TurnPages == (0 - 1)..(TotalPages + 2)

TurnControl == \E p \in TurnPages : Control(UpdateReaderStateEvent(p), MaxTurnCtl)

TurnNext ==
    \/ ApiStart
    \/ TurnControl
    \/ \E d \in {"next", "prev"} : RequestPageTurn(d)
    \/ ApiConsume
    \/ \E t \in Tasks :
        \/ TaskBegin(t)
        \/ TaskTimeout(t)
        \/ TaskHandle(t)

TurnSpec == Init /\ [][TurnNext]_vars

\* ----- close, restart and pause with session events in the queue --------------
MaxRestartCtl == 2

RestartEvents == {CloseEvent} \cup {InitSessionEvent(p, b) : p \in Pages, b \in Books}

RestartControl == \E e \in RestartEvents : Control(e, MaxRestartCtl)

RestartNext ==
    \/ ApiStart
    \/ ApiPause
    \/ ApiReturn
    \/ RestartControl
    \/ ApiConsume
    \/ \E t \in Tasks :
        \/ TaskBegin(t)
        \/ TaskTimeout(t)
        \/ TaskCancelled(t)
        \/ TaskHandle(t)
        \/ TaskStopResume(t)

RestartSpec == Init /\ [][RestartNext]_vars

\* ----- the replies of the coaching engine -------------------------------------
MaxReplyAudio == 12

ReplyAudio == IngestAudio(MaxReplyAudio)

ReplyNext ==
    \/ ApiStart
    \/ ReplyAudio
    \/ ApiConsume
    \/ \E t \in Tasks :
        \/ TaskBegin(t)
        \/ TaskTimeout(t)
        \/ TaskHandle(t)
        \/ \E d \in Decisions \cup NonPageReplies : EngineReturn(t, d)

ReplySpec == Init /\ [][ReplyNext]_vars

\* ----- two sessions on the one SimpleReadingAgent of the process --------------
InterfereInit ==
    /\ SvcInit
    /\ qcap = Backlog(MaxQueue, MaxOut)
    /\ AgentInit
    /\ SimpleStart(ThresholdMin..ThresholdMax)
    /\ RepoInit
    /\ api_pc = "idle"
    /\ api_wait = 0
    /\ NoConn

\* what random.random() and the two random.randint calls give when the agent
\* turns a page: go to the next page or skip ahead, by how much, and the new
\* threshold
Draws == [next : BOOLEAN, skip : 1..2, threshold : ThresholdMin..ThresholdMax]
NoDraw == [next |-> TRUE, skip |-> 0, threshold |-> 0]

\* SimpleReadingAgent.coach for reader r in run w, and the service applying a
\* page change; the answers and the draws of A are recorded
SimpleAnswer(w, r, count, draw) ==
    IF count >= page_turn_threshold[w]
    THEN IF reader_page[w][r] < TotalPages
         THEN [type |-> "page_change",
               page |-> IF draw.next THEN reader_page[w][r] + 1
                        ELSE IF reader_page[w][r] + draw.skip < TotalPages
                             THEN reader_page[w][r] + draw.skip ELSE TotalPages]
         ELSE [type |-> "feedback", page |-> 0]
    ELSE IF count % 3 = 0 THEN [type |-> "feedback", page |-> 1]
    ELSE [type |-> "notice", page |-> 0]

SimpleCoach(w, r, draw) ==
    LET count == audio_count[w] + 1
        turns == count >= page_turn_threshold[w] /\ reader_page[w][r] < TotalPages
        answer == SimpleAnswer(w, r, count, draw)
    IN /\ w = 2 => r = "A"
       /\ Len(SelectSeq(coach_inputs[w], LAMBDA i : i.reader = r)) < MaxCoachCalls
       /\ turns <=> draw # NoDraw
       /\ audio_count' = [audio_count EXCEPT ![w] = IF turns THEN 0 ELSE count]
       /\ page_turn_threshold' =
              [page_turn_threshold EXCEPT ![w] = IF turns THEN draw.threshold ELSE @]
       /\ reader_page' = [reader_page EXCEPT ![w][r] = IF turns THEN answer.page ELSE @]
       /\ coach_inputs' = [coach_inputs EXCEPT ![w] = Append(@, [reader |-> r, draw |-> draw])]
       /\ coach_outputs' = [coach_outputs EXCEPT ![w] = Append(@, answer)]
       /\ UNCHANGED <<sessVars, audio_buffer, trackVars, taskVars, queueVars, nAudio, nCtl, qcap,
                      agentVars, repoVars, lastOp, callerVars>>

InterfereNext == \E w \in Runs, r \in Readers, draw \in Draws \cup {NoDraw} : SimpleCoach(w, r, draw)

InterfereSpec == InterfereInit /\ [][InterfereNext]_vars

\* ----- the session repositories ------------------------------------------------
RepoUnchanged == UNCHANGED <<sessVars, audio_buffer, trackVars, taskVars, queueVars,
                             nAudio, nCtl, qcap, agentVars, simpleVars, lastOp, callerVars>>

Result(impl, op, id, outcome) == [impl |-> impl, op |-> op, id |-> id, outcome |-> outcome]

InStore(impl, id) == repo_sessions[impl][id] # 0

\* save_session: self._sessions[id] = session, or table.put_item
RepoSave(impl, id, v) ==
    /\ repo_sessions' = [repo_sessions EXCEPT ![impl][id] = v]
    /\ repo_result' = Result(impl, "save", id, "ok")
    /\ RepoUnchanged

\* get_session: both implementations raise ValueError for an id not stored
RepoGet(impl, id) ==
    /\ repo_result' = Result(impl, "get", id, IF InStore(impl, id) THEN "ok" ELSE "not_found")
    /\ UNCHANGED repo_sessions
    /\ RepoUnchanged

\* update_session: the local repository raises ValueError for an id not
\* stored; the DynamoDB repository calls save_session
RepoUpdate(impl, id, v) ==
    /\ IF impl = "local" /\ ~InStore(impl, id)
       THEN /\ repo_result' = Result(impl, "update", id, "not_found")
            /\ UNCHANGED repo_sessions
       ELSE /\ repo_sessions' = [repo_sessions EXCEPT ![impl][id] = v]
            /\ repo_result' = Result(impl, "update", id, "ok")
    /\ RepoUnchanged

\* delete_session: the local repository raises ValueError for an id not
\* stored; the DynamoDB repository calls table.delete_item, which succeeds
\* whether the item exists or not
RepoDelete(impl, id) ==
    /\ IF impl = "local" /\ ~InStore(impl, id)
       THEN /\ repo_result' = Result(impl, "delete", id, "not_found")
            /\ UNCHANGED repo_sessions
       ELSE /\ repo_sessions' = [repo_sessions EXCEPT ![impl][id] = 0]
            /\ repo_result' = Result(impl, "delete", id, "ok")
    /\ RepoUnchanged

RepoNext ==
    \E impl \in Repositories, id \in SessionIds :
        \/ \E v \in 1..MaxVersion : RepoSave(impl, id, v)
        \/ RepoGet(impl, id)
        \/ \E v \in 1..MaxVersion : RepoUpdate(impl, id, v)
        \/ RepoDelete(impl, id)

RepoSpec == Init /\ [][RepoNext]_vars

\* ----- the NovaSonic adapter: engine sessions of one session id ---------------
AgentUnchanged == UNCHANGED <<sessVars, audio_buffer, trackVars, taskVars, queueVars,
                              nAudio, nCtl, qcap, simpleVars, repoVars, lastOp, callerVars>>

\* asyncio.Lock.acquire does not wait when the lock is free and nobody waits
LockFree(l) == lock_holder[l] = 0 /\ lock_waiters[l] = <<>>

\* inside "async with lock", from the second look at _sessions to the next
\* suspension: the session found is returned and the lock released, or a
\* NovaSonic is made and start_session awaited with the lock held
InitUnderLock(c, l) ==
    IF sessions # 0
    THEN /\ coach_pc' = [coach_pc EXCEPT ![c] = "done"]
         /\ coach_nova' = [coach_nova EXCEPT ![c] = sessions]
         /\ lock_holder' = [lock_holder EXCEPT ![l] = 0]
    ELSE /\ coach_pc' = [coach_pc EXCEPT ![c] = "init"]
         /\ coach_nova' = [coach_nova EXCEPT ![c] = c]
         /\ lock_holder' = [lock_holder EXCEPT ![l] = c]

\* coach() -> _get_or_create_session, up to its first suspension
CoachCall(c) ==
    /\ coach_pc[c] = "idle"
    /\ IF sessions # 0
       THEN /\ coach_pc' = [coach_pc EXCEPT ![c] = "done"]
            /\ coach_nova' = [coach_nova EXCEPT ![c] = sessions]
            /\ UNCHANGED <<initialization_locks, lock_holder, lock_waiters, coach_lock>>
       ELSE LET l == IF initialization_locks = 0 THEN c ELSE initialization_locks IN
            /\ initialization_locks' = l
            /\ coach_lock' = [coach_lock EXCEPT ![c] = l]
            /\ IF LockFree(l)
               THEN /\ InitUnderLock(c, l)
                    /\ UNCHANGED lock_waiters
               ELSE /\ lock_waiters' = [lock_waiters EXCEPT ![l] = Append(@, c)]
                    /\ coach_pc' = [coach_pc EXCEPT ![c] = "waiting"]
                    /\ UNCHANGED <<lock_holder, coach_nova>>
    /\ UNCHANGED <<sessions, close_pc, close_session_pc>>
    /\ AgentUnchanged

\* the lock was released and this call is the first that waits for it
CoachWake(c) ==
    /\ coach_pc[c] = "waiting"
    /\ lock_holder[coach_lock[c]] = 0
    /\ Head(lock_waiters[coach_lock[c]]) = c
    /\ lock_waiters' = [lock_waiters EXCEPT ![coach_lock[c]] = Tail(@)]
    /\ InitUnderLock(c, coach_lock[c])
    /\ UNCHANGED <<sessions, initialization_locks, coach_lock, close_pc, close_session_pc>>
    /\ AgentUnchanged

\* start_session and start_audio_input have returned: the session is stored
\* and the lock released
CoachStore(c) ==
    /\ coach_pc[c] = "init"
    /\ sessions' = coach_nova[c]
    /\ lock_holder' = [lock_holder EXCEPT ![coach_lock[c]] = 0]
    /\ coach_pc' = [coach_pc EXCEPT ![c] = "done"]
    /\ UNCHANGED <<initialization_locks, lock_waiters, coach_lock, coach_nova, close_pc,
                   close_session_pc>>
    /\ AgentUnchanged

\* start_session or start_audio_input raises: the lock is released, coach()
\* answers with an ErrorOutMessage
CoachInitFails(c) ==
    /\ coach_pc[c] = "init"
    /\ lock_holder' = [lock_holder EXCEPT ![coach_lock[c]] = 0]
    /\ coach_pc' = [coach_pc EXCEPT ![c] = "failed"]
    /\ coach_nova' = [coach_nova EXCEPT ![c] = 0]
    /\ UNCHANGED <<sessions, initialization_locks, lock_waiters, coach_lock, close_pc,
                   close_session_pc>>
    /\ AgentUnchanged

\* close(): awaits nova.close_session() for every stored session, then clears
\* _sessions and _initialization_locks; without a stored session it does not
\* suspend
AgentClose ==
    /\ close_pc = "idle"
    /\ IF sessions = 0
       THEN /\ initialization_locks' = 0
            /\ close_pc' = "done"
       ELSE /\ close_pc' = "closing"
            /\ UNCHANGED initialization_locks
    /\ UNCHANGED <<sessions, lock_holder, lock_waiters, coach_pc, coach_lock, coach_nova,
                   close_session_pc>>
    /\ AgentUnchanged

AgentCloseEnd ==
    /\ close_pc = "closing"
    /\ sessions' = 0
    /\ initialization_locks' = 0
    /\ close_pc' = "done"
    /\ UNCHANGED <<lock_holder, lock_waiters, coach_pc, coach_lock, coach_nova,
                   close_session_pc>>
    /\ AgentUnchanged

\* close_session(session_id): nothing without a stored session; else the engine
\* session is ended, which suspends
CloseSession ==
    /\ close_session_pc = "idle"
    /\ close_session_pc' = IF sessions = 0 THEN "done" ELSE "closing"
    /\ UNCHANGED <<sessions, initialization_locks, lock_holder, lock_waiters, coach_pc,
                   coach_lock, coach_nova, close_pc>>
    /\ AgentUnchanged

\* the finally clause: del self._sessions[session_id], a KeyError if close()
\* has emptied the map meanwhile, then the lock of the session id is deleted
CloseSessionEnd ==
    /\ close_session_pc = "closing"
    /\ IF sessions = 0
       THEN /\ close_session_pc' = "raised"
            /\ UNCHANGED <<sessions, initialization_locks>>
       ELSE /\ sessions' = 0
            /\ initialization_locks' = 0
            /\ close_session_pc' = "done"
    /\ UNCHANGED <<lock_holder, lock_waiters, coach_pc, coach_lock, coach_nova, close_pc>>
    /\ AgentUnchanged

AgentNext ==
    \/ \E c \in Coaches :
        \/ CoachCall(c)
        \/ CoachWake(c)
        \/ CoachStore(c)
        \/ CoachInitFails(c)
    \/ AgentClose
    \/ AgentCloseEnd
    \/ CloseSession
    \/ CloseSessionEnd

AgentSpec == Init /\ [][AgentNext]_vars

\* ----- a connection whose service is also handed an event of unknown type ----
\* inbound_queue.put(event) by the owner of the service, with an event that is
\* an InboundEvent but none of its five subclasses
PutUnknown == Control(UnknownEvent, MaxCtl)

IgnoreNext ==
    \/ ConnNext
    \/ PutUnknown

IgnoreSpec == ConnInit /\ [][IgnoreNext]_vars

\* ----- a backlog in both queues, across pause() and start() -------------------
\* the service is driven through start() and pause() while page updates arrive
\* and the send loop of the transport drains the outbound queue
OrderInit ==
    /\ SvcInit
    /\ qcap = Backlog(MaxBacklog, MaxBacklog)
    /\ AgentInit
    /\ SimpleIdle
    /\ RepoInit
    /\ api_pc = "idle"
    /\ api_wait = 0
    /\ NoConn

OrderEvents == {UpdateReaderStateEvent(p) : p \in 1..TotalPages}

OrderControl == \E e \in OrderEvents : Control(e, MaxOrderCtl)

\* handle_websocket: asyncio.create_task(self._send_loop(websocket)), on a
\* service that was started
SpawnSendLoop ==
    /\ send_pc = "off"
    /\ running
    /\ send_pc' = "new"
    /\ lastOp' = Quiet
    /\ UNCHANGED <<sessVars, audio_buffer, trackVars, taskVars, queueVars, envVars,
                   apiVars, supVars, ctlVars, send_item, send_exc, send_cancel, recvVars, wire>>

OrderNext ==
    \/ ApiStart
    \/ ApiPause
    \/ ApiReturn
    \/ OrderControl
    \/ SpawnSendLoop
    \/ SendBegin
    \/ SendWake
    \/ SendComplete
    \/ \E t \in Tasks :
        \/ TaskBegin(t)
        \/ TaskTimeout(t)
        \/ TaskCancelled(t)
        \/ TaskHandle(t)

OrderSpec == OrderInit /\ [][OrderNext]_vars

\* ===== properties =============================================================
Range(f) == {f[i] : i \in DOMAIN f}
OutOfRange(p) == p < 1 \/ p > TotalPages
CoachedPageChange(op) == op.op = "coach" /\ op.kind = "page_change"

\* C1: in every reachable state 1 <= current_page <= total_pages, whatever
\* events arrive and whatever page turns are requested.
C1_PageInRange == 1 <= current_page /\ current_page <= TotalPages

\* C2: a PageChange decision whose target is outside [1, total_pages] enqueues
\* nothing and leaves current_page, last_activity_at, the event-id counter and
\* the pending map unchanged.
C2_InvalidPageDropped ==
    [][(CoachedPageChange(lastOp') /\ OutOfRange(lastOp'.n))
        => UNCHANGED <<outbound_queue, current_page, last_activity_at,
                       event_id_counter, pending_events>>]_vars

C2_Witness == CoachedPageChange(lastOp) /\ lastOp.n > TotalPages /\ event_id_counter > 0

\* C3: the n-th allocated event id is '{sessionId}-evt-{n}', so ids strictly
\* increase by one and are never reused, also after pause()/stop() and a new
\* start(); no id is inserted into the pending map twice.
C3_EventIdsIncrease ==
    /\ \A i \in 1..Len(issued) : issued[i] = EventId(i)
    /\ \A i, j \in 1..Len(tracked) : i < j => tracked[i] # tracked[j]
    /\ event_id_counter = Len(issued)
    /\ \A id \in DOMAIN pending_events : id \in Range(issued)

C3_Witness == Len(issued) = 2 /\ task = 2 /\ running /\ lastOp.op \in {"coach", "turn"}

\* C4: every PageChange message on the outbound queue carries an event id that
\* is not null and has been inserted into the pending map, and at the step that
\* enqueues the message its id is in the pending map.
C4_QueuedIdTracked ==
    \A i \in 1..Len(outbound_queue) :
        outbound_queue[i].type = "page_change"
            => /\ outbound_queue[i].event_id # None
               /\ outbound_queue[i].event_id \in Range(tracked)

C4_EnqueuedIdPending ==
    (Len(outbound_queue') > Len(outbound_queue)
     /\ outbound_queue'[Len(outbound_queue')].type = "page_change")
        => outbound_queue'[Len(outbound_queue')].event_id \in DOMAIN pending_events'

C4_TrackedBeforeVisible == [](C4_QueuedIdTracked) /\ [][C4_EnqueuedIdPending]_vars

C4_Witness ==
    /\ outbound_queue # <<>>
    /\ outbound_queue[Len(outbound_queue)].type = "page_change"
    /\ lastOp.op = "coach"

\* C5: a null decision of the engine enqueues nothing and changes no session
\* state.
C5_NullDecisionIgnored ==
    [][(lastOp'.op = "coach" /\ lastOp'.kind = "null")
        => UNCHANGED <<outbound_queue, sessVars>>]_vars

\* C6: whenever stop() has returned, the status is COMPLETED and the event loop
\* is not running.
C6_StopCompletes ==
    (lastOp.op = "stop" /\ lastOp.kind \in {"noop", "returned"})
        => (status = "completed" /\ ~running)

C8_TeardownCompleted == sup_pc = "returned" => (status = "completed" /\ ~running)

\* C9: while the supervisor waits, a raised exception in either task, or the
\* receive loop having left on a disconnect frame, releases the wait.
C9_FirstEndReleasesWait ==
    (sup_pc = "wait" /\ (send_pc = "failed" \/ recv_pc \in {"failed", "done"}))
        => WaitReturns

\* C10: when handle_websocket has returned both transport tasks have ended, the
\* event loop is not running and the supervisor has closed the connection
\* exactly once; it never closes it before that.
C10_OneTeardown ==
    /\ sup_pc = "returned" => (Ended(send_pc) /\ Ended(recv_pc) /\ ~running /\ ws_closed = 1)
    /\ sup_pc # "returned" => ws_closed = 0

C10_Witness == sup_pc = "returned" /\ recv_pc = "failed" /\ send_pc = "cancelled"

\* C11: on a connection that the client ends, the session is saved finally at
\* most once; the final save comes after the coordinator was stopped, after the
\* transport supervisor returned and after the periodic-save task ended; no
\* save and no change of the session follows it, so what is stored is the final
\* session; and the controller returns only after exactly one final save.
C11_FinalSaveState ==
    /\ nFinal <= 1
    /\ nFinal = 1 => /\ ~running
                     /\ sup_pc = "returned"
                     /\ persist_pc = "done"
                     /\ saved = Stored
    /\ ctl_pc = "returned" <=> nFinal = 1

C11_NoSaveAfterFinal == (nFinal = 1) => UNCHANGED <<nPeriodic, nFinal, saved>>

C11_FinalSaveOnce == [](C11_FinalSaveState) /\ [][C11_NoSaveAfterFinal]_vars

C11_Witness ==
    /\ ctl_pc = "returned"
    /\ nFinal = 1
    /\ nPeriodic = 1
    /\ nAudio > 0
    /\ recv_pc = "done"

\* C12: whenever pause() or stop(), called from outside the event-processing
\* task, has returned, no event-processing task of the session is alive, so no
\* handler step and no engine call can follow the return.
Returned(op) == op.op \in {"pause", "stop"} /\ op.kind \in {"noop", "returned"}

C12_ReturnedMeansTerminated == Returned(lastOp) => \A t \in Tasks : ~Alive(t)

\* C13: in every reachable state at most one event-processing task is alive,
\* at most one handler is in progress and at most one engine call is in flight.
InHandler(t) == tpc[t] \in {"coach", "stopwait"}

C13_SingleLoop ==
    /\ Cardinality({t \in Tasks : Alive(t)}) <= 1
    /\ Cardinality({t \in Tasks : InHandler(t)}) <= 1
    /\ Cardinality({t \in Tasks : tpc[t] = "coach"}) <= 1

\* C14: the audio buffer never holds more than 50 frames, and it holds the
\* most recent frames handled, in the order of their arrival.
QueuedAudio == Len(SelectSeq(inbound_queue, LAMBDA e : e.type = "audio"))
HandledAudio == nAudio - QueuedAudio

C14_BufferBounded ==
    /\ Len(audio_buffer) <= BufferCap
    /\ \A i \in 1..Len(audio_buffer) :
           audio_buffer[i] = HandledAudio - Len(audio_buffer) + i

C14_Witness ==
    /\ Len(audio_buffer) = BufferCap
    /\ audio_buffer[1] = 2
    /\ audio_buffer[BufferCap] = BufferCap + 1

\* C15: the k-th handled IngestAudio event calls the engine if and only if
\* k >= 10 (the buffer holds at least 10 frames after the append), so after n
\* events the engine has been called max(0, n - 9) times; a dispatch never
\* clears the buffer, which holds the most recent min(n, 50) frames, and the
\* engine is called with all of them.
Min(a, b) == IF a < b THEN a ELSE b
Recent(n) == [i \in 1..Min(n, BufferCap) |-> n - Min(n, BufferCap) + i]
AudioHandled(op) == op.op = "handle" /\ op.kind = "audio"
EngineCalled == \E t \in Tasks : tpc[t] # "coach" /\ tpc'[t] = "coach"

C15_BufferRetained == audio_buffer = Recent(HandledAudio)

C15_DispatchStep ==
    /\ AudioHandled(lastOp') => (EngineCalled <=> HandledAudio' >= DispatchThreshold)
    /\ EngineCalled => (AudioHandled(lastOp') /\ audio_buffer' = Recent(HandledAudio'))

C15_DispatchFromTenth == [](C15_BufferRetained) /\ [][C15_DispatchStep]_vars

C15_Witness ==
    /\ HandledAudio = DispatchThreshold + 1
    /\ AudioHandled(lastOp)
    /\ \E t \in Tasks : tpc[t] = "coach"
    /\ Len(audio_buffer) = DispatchThreshold + 1

\* C16: for every configured capacity N the history never holds more than N
\* entries, and it holds the most recent acknowledged events in the order of
\* their acknowledgement (the oldest entry is evicted first).
C16_HistoryBounded ==
    /\ Len(last_events) <= max_event_history
    /\ Len(last_events) = Min(Len(acked), max_event_history)
    /\ \A i \in 1..Len(last_events) :
           last_events[i].event_id = acked[Len(acked) - Len(last_events) + i]

\* C17: handling an AckEvent whose id is pending removes exactly that id from
\* the pending map, appends its payload as the newest history entry and
\* enqueues nothing, whatever the status of the acknowledgement and whatever
\* the order of the acknowledgements.
AckHandled(op) == op.op = "handle" /\ op.kind \in {"ack", "ack_error", "ack_unknown"}

C17_AckStep ==
    (AckHandled(lastOp') /\ EventId(lastOp'.n) \in DOMAIN pending_events)
        => LET id == EventId(lastOp'.n) IN
           /\ DOMAIN pending_events' = DOMAIN pending_events \ {id}
           /\ \A k \in DOMAIN pending_events' : pending_events'[k] = pending_events[k]
           /\ last_events' # <<>>
           /\ last_events'[Len(last_events')] = pending_events[id]
           /\ UNCHANGED <<outbound_queue, event_id_counter, sessVars>>

C17_AckMovesToHistory == [][C17_AckStep]_vars

C17_Witness ==
    /\ lastOp = Op("handle", "ack_error", 2)
    /\ DOMAIN pending_events = {EventId(1), EventId(3)}
    /\ Len(last_events) = 1
    /\ last_events[1].event_id = EventId(2)

\* C18: handling an AckEvent for an id that is not pending (never issued, or
\* acknowledged before) leaves the pending map, the history, the event-id
\* counter, the session and the outbound queue unchanged, and the task that
\* handled it goes on waiting for the next event.
C18_UnknownAckStep ==
    (AckHandled(lastOp') /\ EventId(lastOp'.n) \notin DOMAIN pending_events)
        => /\ UNCHANGED <<pending_events, last_events, event_id_counter, sessVars,
                          outbound_queue, running>>
           /\ \A t \in Tasks : tpc[t] = "get" => tpc'[t] = "get"

C18_UnknownAckIgnored == [][C18_UnknownAckStep]_vars

C18_Witness ==
    /\ AckHandled(lastOp)
    /\ lastOp.kind = "ack_unknown"
    /\ EventId(lastOp.n) \in Range(acked)
    /\ pending_events # <<>>
    /\ running
    /\ tpc[task] = "get"

\* C19: stop() is idempotent: a stop() called right after a stop() has
\* returned changes nothing (status, timestamp, running flag, task, buffer,
\* pending map, history, counter, queues).
C19_SecondStopStep ==
    (Returned(lastOp) /\ lastOp.op = "stop" /\ lastOp'.op = "stop")
        => UNCHANGED <<sessVars, running, task, tpc, must_cancel, audio_buffer,
                       pending_events, last_events, event_id_counter, queueVars>>

C19_StopIdempotent == [][C19_SecondStopStep]_vars

C19_Witness ==
    /\ lastOp = Op("stop", "noop", 1)
    /\ status = "completed"
    /\ Finished(task)
    /\ pending_events # <<>>

\* C20: pause() and stop() leave the audio buffer, the pending map, the
\* history, the event-id counter, current_page and both queues unchanged; a
\* following start() keeps them too (but for the session-ready message it
\* enqueues) and creates a new event-processing task; and the next id that is
\* allocated continues from the counter, beside the events already pending.
Preserved == <<audio_buffer, pending_events, last_events, event_id_counter, current_page,
               inbound_queue>>

C20_Step ==
    /\ lastOp'.op \in {"pause", "stop"} => UNCHANGED <<Preserved, outbound_queue>>
    /\ (lastOp'.op = "start" /\ lastOp'.kind = "started")
           => /\ UNCHANGED Preserved
              /\ running'
              /\ tpc[task'] = "unborn"
              /\ tpc'[task'] = "new"
    /\ event_id_counter' # event_id_counter
           => /\ event_id_counter' = event_id_counter + 1
              /\ DOMAIN pending_events' = DOMAIN pending_events \cup {EventId(event_id_counter')}
              /\ \A k \in DOMAIN pending_events : pending_events'[k] = pending_events[k]

StartCalled(op) == op.op = "start"

C21_StartStep ==
    StartCalled(lastOp')
        => /\ status \in {"initializing", "paused"}
                => /\ status' = "active"
                   /\ running'
                   /\ \E t \in Tasks :
                          /\ tpc[t] = "unborn"
                          /\ tpc' = [tpc EXCEPT ![t] = "new"]
                          /\ task' = t
                   /\ outbound_queue' = Append(outbound_queue,
                          [type |-> "session.ready", page |-> current_page,
                           direction |-> "none", event_id |-> None,
                           session_id |-> SessionId, book_id |-> book_id])
                   /\ UNCHANGED <<current_page, book_id>>
           /\ running => UNCHANGED <<sessVars, taskVars, queueVars, audio_buffer, trackVars>>

C21_StartOnce == [][C21_StartStep]_vars

C21_Witness ==
    /\ lastOp = Op("start", "started", 1)
    /\ status = "active"
    /\ task = 2
    /\ tpc[2] = "new"
    /\ outbound_queue # <<>>
    /\ outbound_queue[Len(outbound_queue)].type = "session.ready"

\* C22: when the handler of an event raises (the engine call fails), exactly
\* one ErrorOut with code INTERNAL_ERROR is enqueued, the session and the
\* running flag are unchanged (an Active session stays Active), the events
\* behind the failing one stay on the inbound queue in their order and the
\* task goes back to wait for them.
HandlerRaised(op) == op.op = "coach" /\ op.kind = "raised"

C22_RaiseStep ==
    HandlerRaised(lastOp')
        => /\ outbound_queue' = Append(outbound_queue,
                  [type |-> "error", page |-> 0, direction |-> "none",
                   event_id |-> None, code |-> "INTERNAL_ERROR"])
           /\ UNCHANGED <<sessVars, running, inbound_queue, pending_events, last_events,
                          event_id_counter>>
           /\ \E t \in Tasks :
                  /\ tpc[t] = "coach"
                  /\ tpc' = [tpc EXCEPT ![t] = IF running THEN "get" ELSE "done"]

C23_InboundStep ==
    /\ (inbound_queue' # inbound_queue) =>
           \/ /\ \E e \in OrderEvents : inbound_queue' = Append(inbound_queue, e)
              /\ lastOp'.op # "handle"
           \/ /\ inbound_queue # <<>>
              /\ inbound_queue' = Tail(inbound_queue)
              /\ lastOp'.op = "handle"
    /\ (lastOp'.op = "handle") =>
           /\ inbound_queue # <<>>
           /\ inbound_queue' = Tail(inbound_queue)
           /\ lastOp'.kind = Head(inbound_queue).type
           /\ current_page' = Head(inbound_queue).page

C23_OutboundStep ==
    /\ (outbound_queue' # outbound_queue) =>
           \/ /\ Len(outbound_queue') = Len(outbound_queue) + 1
              /\ SubSeq(outbound_queue', 1, Len(outbound_queue)) = outbound_queue
              /\ UNCHANGED <<send_item, wire>>
           \/ /\ outbound_queue # <<>>
              /\ outbound_queue' = Tail(outbound_queue)
              /\ send_pc' = "sending"
              /\ send_item' = Head(outbound_queue)
    /\ (send_item' # send_item) => (outbound_queue # <<>> /\ outbound_queue' = Tail(outbound_queue))
    /\ (wire' # wire) => (send_pc = "sending" /\ wire' = Append(wire, send_item))
    /\ (send_pc = "sending" /\ send_pc' # "sending") => wire' = Append(wire, send_item)

C23_QueueOrder == [][C23_InboundStep /\ C23_OutboundStep]_vars

C23_Witness ==
    /\ lastOp.op = "handle"
    /\ task = 2
    /\ tpc[2] = "get"
    /\ nCtl = MaxOrderCtl
    /\ Len(inbound_queue) = 1
    /\ current_page # inbound_queue[1].page
    /\ Len(wire) = 1
    /\ send_pc = "sending"
    /\ send_item # wire[1]
    /\ outbound_queue = <<>>

\* C24: when the send loop, having written at least one message, has ended by
\* leaving its while loop, no message of the coordinator is left in the
\* outbound queue: every enqueued message was taken by the send loop.
C24_NoneLeftUnsent == (send_pc = "done" /\ wire # <<>>) => outbound_queue = <<>>

\* C25: after a first frame that is not a session.create with student_id and
\* book_id, the client has been sent exactly the INVALID_MESSAGE error, the
\* endpoint has closed the connection once, no session is stored and no
\* coordinator task exists.
C25_FirstFrameRejected ==
    (lastOp.op = "first_frame" /\ lastOp.kind # "create") =>
        /\ wire = <<InvalidMessageError>>
        /\ ep_closed = 1
        /\ saved = None
        /\ ~running
        /\ task = 0
        /\ sup_pc = "start"

\* C26: on a new connection session.created is written at most once and is
\* the first frame on the wire; it is written after the session was saved and
\* while no coordinator exists, and the coordinator is started only after it;
\* session.ready is the second frame, and every other message of the
\* coordinator comes after session.ready.
OnWire(type) == {i \in DOMAIN wire : wire[i].type = type}

C26_WireOrder ==
    /\ Cardinality(OnWire("session.created")) <= 1
    /\ OnWire("session.created") \subseteq {1}
    /\ OnWire("session.created") # {} => saved # None
    /\ (task # 0 \/ running \/ outbound_queue # <<>> \/ status # "initializing")
           => OnWire("session.created") = {1}
    /\ OnWire("session.ready") \subseteq {2}
    /\ \A i \in DOMAIN wire :
           (ctl_pc # "rejected" /\ wire[i].type \notin {"session.created", "session.ready"})
               => (i >= 3 /\ OnWire("session.ready") = {2})

C26_CreateStep ==
    (wire' # wire /\ wire'[Len(wire')].type = "session.created")
        => (wire = <<>> /\ saved' = Stored /\ task = 0 /\ ~running /\ status = "initializing")

C26_CreatedFirst == [](C26_WireOrder) /\ [][C26_CreateStep]_vars

C26_Witness ==
    /\ Len(wire) >= 3
    /\ wire[1] = SessionCreatedFrame
    /\ wire[2].type = "session.ready"
    /\ wire[3].type \in {"page_change", "feedback"}

\* C27: handling an inbound event of unknown type, receiving a control message
\* of unknown type and receiving a text frame that is not JSON each leave the
\* session, the audio buffer, the pending events and their history unchanged
\* and enqueue nothing; the receive loop and the send loop stay where they are,
\* the coordinator task is not cancelled and, if the service is running, waits
\* for the next event.
IgnoredByTransport(op) == op.op = "recv" /\ op.kind \in IgnoredFrames

IgnoredByCoordinator(op) == op = Op("handle", "unknown", 0)

C27_IgnoreStep ==
    /\ IgnoredByTransport(lastOp') =>
           /\ UNCHANGED <<sessVars, audio_buffer, pending_events, last_events, event_id_counter,
                          queueVars, taskVars, sendVars, recvVars, supVars>>
           /\ recv_pc' = "recv"
    /\ IgnoredByCoordinator(lastOp') =>
           /\ UNCHANGED <<sessVars, audio_buffer, pending_events, last_events, event_id_counter,
                          outbound_queue, running, task, must_cancel, sendVars, recvVars, supVars>>
           /\ inbound_queue # <<>>
           /\ Head(inbound_queue) = UnknownEvent
           /\ inbound_queue' = Tail(inbound_queue)
           /\ \E t \in Tasks :
                  /\ tpc[t] = "get"
                  /\ tpc' = [tpc EXCEPT ![t] = IF running THEN "get" ELSE "done"]

C27_UnknownIgnored == [][C27_IgnoreStep]_vars

C27_Witness ==
    /\ IgnoredByCoordinator(lastOp)
    /\ running
    /\ tpc[task] = "get"
    /\ audio_buffer # <<>>
    /\ recv_pc = "recv"
    /\ send_pc \in {"get", "sending"}
    /\ sup_pc = "wait"

\* C28: when the engine answers with a PageChange to a page p of the book, be
\* it the next page, the previous one, the current one or one further away,
\* that step sets current_page to p, advances the event-id counter by one,
\* adds to the pending events exactly the entry of the new id, whose payload
\* names page p and that id, keeps the other entries, and appends to the
\* outbound queue one PageChange message to page p that carries that id.
EngineTurnsTo(op) == op.op = "coach" /\ op.kind = "page_change" /\ ValidPage(op.n)

C28_PageChangeStep ==
    EngineTurnsTo(lastOp') =>
        LET p == lastOp'.n
            id == EventId(event_id_counter + 1)
        IN /\ current_page' = p
           /\ event_id_counter' = event_id_counter + 1
           /\ id \notin DOMAIN pending_events
           /\ DOMAIN pending_events' = DOMAIN pending_events \cup {id}
           /\ \A k \in DOMAIN pending_events : pending_events'[k] = pending_events[k]
           /\ pending_events'[id].page = p
           /\ pending_events'[id].event_id = id
           /\ Len(outbound_queue') = Len(outbound_queue) + 1
           /\ SubSeq(outbound_queue', 1, Len(outbound_queue)) = outbound_queue
           /\ outbound_queue'[Len(outbound_queue')].type = "page_change"
           /\ outbound_queue'[Len(outbound_queue')].page = p
           /\ outbound_queue'[Len(outbound_queue')].event_id = id

C28_EnginePageChange == [][C28_PageChangeStep]_vars

C28_Witness ==
    /\ EngineTurnsTo(lastOp)
    /\ lastOp.n = 1
    /\ current_page = 1
    /\ event_id_counter = 2
    /\ DOMAIN pending_events = {EventId(1), EventId(2)}
    /\ pending_events[EventId(1)].page = 2
    /\ pending_events[EventId(2)].page = 1
    /\ outbound_queue = <<[PageChangeMessage(1, "none") EXCEPT !.event_id = EventId(2)]>>

\* C29: every step that changes the session record (status, current_page,
\* last_activity_at) is a step of the event-processing task: the handling of
\* an event, the return of the engine, or the end of a stop() that a handler
\* called.
InCoordinatorTask(op) == op.op \in {"handle", "coach", "loop"}

C29_WriteStep ==
    (<<status, current_page, last_activity_at>>' # <<status, current_page, last_activity_at>>)
        => InCoordinatorTask(lastOp')

C29_TaskOnlyWrites == [][C29_WriteStep]_vars

\* C30: at no time are two coach() calls initializing an engine session for
\* the same session id, and a call that has made an engine session stores it
\* only when no other engine session is stored for that id.
Initializing == {c \in Coaches : coach_pc[c] = "init"}

C30_InitSerialized == Cardinality(Initializing) <= 1

\* C32: a page turn on request that is refused (next on the last page, prev on
\* page 1) enqueues one Notice and leaves current_page, the pending events and
\* the event-id counter unchanged; every other request moves current_page by
\* exactly one to a page of the book, advances the counter by one, adds one
\* pending event for the new page and enqueues one PageChange message for it.
TurnRequested(op) == op.op = "turn"

C32_TurnStep ==
    TurnRequested(lastOp') =>
        IF lastOp'.kind = "refused"
        THEN /\ outbound_queue' = Append(outbound_queue, NoticeMessage)
             /\ UNCHANGED <<current_page, pending_events, event_id_counter>>
        ELSE LET id == EventId(event_id_counter + 1) IN
             /\ current_page' \in {current_page - 1, current_page + 1}
             /\ ValidPage(current_page')
             /\ event_id_counter' = event_id_counter + 1
             /\ DOMAIN pending_events' = DOMAIN pending_events \cup {id}
             /\ id \notin DOMAIN pending_events
             /\ pending_events'[id].page = current_page'
             /\ Len(outbound_queue') = Len(outbound_queue) + 1
             /\ outbound_queue'[Len(outbound_queue')].type = "page_change"
             /\ outbound_queue'[Len(outbound_queue')].page = current_page'

C32_PageTurnOnRequest == [][C32_TurnStep]_vars

\* C31: what session A is answered, call by call, depends on A's own calls and
\* draws alone: whenever A has made the same calls with the same draws in the
\* run with session B and in the run without it, A has been given the same
\* answers, page changes included, in both runs.
OfA(w) ==
    LET idx == {i \in DOMAIN coach_inputs[w] : coach_inputs[w][i].reader = "A"}
        F[i \in 0..Len(coach_inputs[w])] ==
            IF i = 0 THEN <<>>
            ELSE IF i \in idx
                 THEN Append(F[i - 1], [draw |-> coach_inputs[w][i].draw,
                                        answer |-> coach_outputs[w][i]])
                 ELSE F[i - 1]
    IN F[Len(coach_inputs[w])]

C31_NoInterference ==
    [i \in DOMAIN OfA(1) |-> OfA(1)[i].draw] = [i \in DOMAIN OfA(2) |-> OfA(2)[i].draw]
        => OfA(1) = OfA(2)

\* C33: in both repositories a get_session, update_session or delete_session
\* for a session id that is not stored ends with the not-found error and
\* leaves the store as it was; update_session never creates a session.
OnMissing(res) ==
    /\ res.op \in {"get", "update", "delete"}
    /\ repo_sessions[res.impl][res.id] = 0

C33_MissingStep == OnMissing(repo_result') => (repo_result'.outcome = "not_found" /\ UNCHANGED repo_sessions)

C33_NotFound == [][C33_MissingStep]_vars

\* C34: the receive loop ends only by the disconnect frame, by an exception or
\* by cancellation; when it ends by the disconnect frame it has enqueued one
\* Close event in that step. Handling a Close event sets the status to
\* COMPLETED, enqueues one Notice and clears the running flag; the task that
\* handled it waits for its own stop() and then ends normally; and no event
\* is handled while the running flag is cleared, so none behind the Close.
CloseHandled(op) == op = Op("handle", "close", 0)

C34_DisconnectStep ==
    /\ (recv_pc = "recv" /\ recv_pc' = "done") =>
           (inbound_queue' = Append(inbound_queue, CloseEvent) /\ UNCHANGED <<sessVars, running>>)
    /\ (inbound_queue' = Append(inbound_queue, CloseEvent)) =>
           (recv_pc = "recv" /\ recv_pc' = "done")
    /\ CloseHandled(lastOp') =>
           /\ Head(inbound_queue) = CloseEvent
           /\ running
           /\ status' = "completed"
           /\ ~running'
           /\ outbound_queue' = Append(outbound_queue, NoticeMessage)
           /\ \E t \in Tasks : tpc[t] = "get" /\ tpc'[t] \in {"stopwait", "done"}
    /\ \A t \in Tasks : (tpc[t] = "stopwait" /\ tpc'[t] # "stopwait") => tpc'[t] = "done"
    /\ (lastOp'.op = "handle") => running

C34_DisconnectCloses == [][C34_DisconnectStep]_vars

C34_Witness ==
    /\ lastOp = Op("loop", "stop_returned", 0)
    /\ recv_pc = "done"
    /\ status = "completed"
    /\ ~running
    /\ tpc[1] = "done"
    /\ sup_pc = "wait"
    /\ \E i \in DOMAIN wire : wire[i] = NoticeMessage

\* C35: when handle_websocket has returned after the send loop or the receive
\* loop failed with a transport error, the session status is ERROR.
C35_FailureEndsInError ==
    (sup_pc = "returned" /\ (send_pc = "failed" \/ recv_pc = "failed")) => status = "error"

\* C36: once the receive loop has ended on a disconnect frame,
\* handle_websocket eventually returns.
C36_TeardownCompletes == (recv_pc = "done") ~> (sup_pc = "returned")

C36_Witness == recv_pc = "done" /\ sup_pc = "returned"

\* C37: a step in which the task leaves the engine call and writes
\* current_page, the pending map or the event-id counter does all of it: the
\* new page is the page of the one new pending entry, and the message with
\* that entry's id is appended to the outbound queue in the same step, also
\* when pause() or stop() was called during the engine call. In every state
\* each pending entry is one whose message was enqueued.
LeavesCoach(t) == tpc[t] = "coach" /\ tpc'[t] # "coach"

C37_ApplyStep ==
    \A t \in Tasks :
        (LeavesCoach(t) /\ <<current_page, pending_events, event_id_counter>>'
                             # <<current_page, pending_events, event_id_counter>>) =>
            LET id == EventId(event_id_counter') IN
            /\ event_id_counter' = event_id_counter + 1
            /\ DOMAIN pending_events' = DOMAIN pending_events \cup {id}
            /\ id \notin DOMAIN pending_events
            /\ pending_events'[id].page = current_page'
            /\ outbound_queue' = Append(outbound_queue,
                                        Msg("page_change", current_page', "none", id))

C37_PageChangeAtomic ==
    /\ [](\A id \in DOMAIN pending_events : id \in Range(issued))
    /\ [][C37_ApplyStep]_vars

C37_Witness ==
    /\ \E t \in Tasks : tpc[t] = "coach" /\ must_cancel[t]
    /\ status \in {"paused", "completed"}
    /\ DOMAIN pending_events # {}
    /\ \E i \in DOMAIN outbound_queue : outbound_queue[i].type = "page_change"

\* C38: the event-id counter equals the number of pending events plus the
\* number of events acknowledged so far; every pending key is the id of some
\* k in 1..counter and its payload carries that id; and no acknowledged id is
\* pending.
C38_CounterAccounts ==
    /\ event_id_counter = Cardinality(DOMAIN pending_events) + Len(acked)
    /\ \A id \in DOMAIN pending_events :
           /\ \E k \in 1..event_id_counter : id = EventId(k)
           /\ pending_events[id].event_id = id
    /\ \A i \in DOMAIN acked : acked[i] \notin DOMAIN pending_events

\* C39: while the running flag is set the status is ACTIVE, and once the
\* service has been started, while the flag is clear the status is PAUSED or
\* COMPLETED.
C39_FlagMatchesStatus ==
    /\ running => status = "active"
    /\ (~running /\ task # 0) => status \in {"paused", "completed"}

\* C40: a step in which the engine call returns a Feedback, Notice, AudioOut
\* or ErrorOut message appends exactly that message to the outbound queue and
\* leaves current_page, the pending map, the history and the event-id
\* counter as they were.
C40_ReplyStep ==
    \A d \in NonPageReplies :
        (lastOp' = Op("coach", d.type, d.page) /\ \E t \in Tasks : LeavesCoach(t)) =>
            /\ outbound_queue' = Append(outbound_queue, d)
            /\ UNCHANGED <<current_page, pending_events, last_events, event_id_counter>>

C40_ReplyForwarded == [][C40_ReplyStep]_vars

C40_Witness ==
    /\ lastOp = Op("coach", "audio", 0)
    /\ outbound_queue = <<AudioOutMessage>>
    /\ DOMAIN pending_events # {}
    /\ current_page = 2

====
